---- MODULE Spec2Model ----
(***************************************************************************)
(* Shader runtime of rust-gl: the uniform cache (Shader::set /             *)
(* direct_set), the hot-reload protocol (Shader::try_runtime_recompile,    *)
(* load_cached_uniforms), the per-frame update and Renderable::render,     *)
(* over an OpenGL context reduced to what these operations observe: the    *)
(* sticky error flag, the current program, the program objects created so  *)
(* far, and the active uniforms and uniform values of the shader's         *)
(* program.  Shader source texts are sequences of tokens.                  *)
(***************************************************************************)
EXTENDS Integers, Sequences, FiniteSets, TLC

VARIABLES
    path,            \* Shader.path is Some(..)
    debug_sources,   \* Shader.debug_sources: <<>> or <<vert, frag, geo>>
    program,         \* Shader.program: 0 is None, otherwise the handle
    cache,           \* Shader.cache: name -> cached value (NoValue: absent)
    optionals,       \* Shader.optionals bit field
    disk,            \* text of <path>.vert / .frag / .geo
    exists,          \* which of <path>.vert and <path>.frag exist
    edits,           \* number of file edits so far
    gl_error,        \* GL error flag: an error is pending until glGetError
    current_program, \* GL_CURRENT_PROGRAM
    created,         \* number of program objects glCreateProgram has returned
    active,          \* active uniforms of the shader's program
    block_bound,     \* the shader's program declares the Matrices block
    uniform_vals,    \* uniform values held by the shader's program
    vbos,            \* VertexArrayObject.vbos: the buffered flag of each
    structure,       \* VertexArrayObject.structure
    vertex_buffers,  \* strides of the glVertexArrayVertexBuffer calls of the last configure
    attribs,         \* glVertexArrayAttribFormat / AttribBinding calls of the last configure
    transforms,      \* InstancedObject.transforms.len()
    current_frame_time, \* EventHandler.current_frame_time, in ticks
    last_tick,       \* EventHandler.last_tick, in ticks
    frame_index,     \* Engine.frame_index
    frame_events,    \* what the last Engine::update did, in order
    sweep_times,     \* frame-start times of the reload sweeps so far
    shaders,         \* ShaderManager.shaders: the registered ShaderPtrs, in order
    sweep,           \* what the last ShaderManager::update did
    assembly,        \* the sources NarrowingMaterial::into_shader assembled
    mesh,            \* the Renderable, RenderableGroup or InstancedObject of the scene
    draw,            \* Draw: the shape lists and the data its InstancedObjects hold
    frame,           \* the RefCell guards taken by the frame in progress
    panicked,        \* the process hit a Rust panic
    last             \* the last operation and what it reported

vars == <<path, debug_sources, program, cache, optionals, disk, exists, edits,
          gl_error, current_program, created, active, block_bound,
          uniform_vals, vbos, structure, vertex_buffers, attribs, transforms,
          current_frame_time, last_tick, frame_index, frame_events, sweep_times,
          shaders, sweep, assembly, mesh, draw, frame, panicked, last>>

shaderVars == <<path, debug_sources, program, cache, optionals>>
glVars == <<gl_error, current_program, created, active, block_bound, uniform_vals>>
diskVars == <<disk, exists, edits>>
vaoVars == <<vbos, structure, vertex_buffers, attribs>>
engineVars == <<current_frame_time, last_tick, frame_index, frame_events, sweep_times>>
managerVars == <<shaders, sweep>>
sceneVars == <<mesh, draw, frame>>

----------------------------------------------------------------------------
(* Bounds *)

MaxPrograms == 2
MaxEdits == 1
MaxVbos == 2
MaxAttrs == 3
MaxTransforms == 1
MaxShapes == 2
MaxFrames == 4

----------------------------------------------------------------------------
(* Values *)

Names == {"model", "diffuse", "time", "emissive", "specular", "specular_exponent"}

\* f32 NaN: the one float that is not equal to itself
NaN == -1

FloatKinds == {"Float", "VecFloat", "Matrix4"}
VecKinds == {"VecFloat"}

NoValue == [kind |-> "None", v |-> <<>>]
FloatV(x) == [kind |-> "Float", v |-> <<x>>]
VecFloatV(s) == [kind |-> "VecFloat", v |-> s]
Matrix4V(x) == [kind |-> "Matrix4", v |-> <<x>>]

\* the calls of set: <<value, name>>
SetCalls ==
    { <<FloatV(1), "time">>, <<FloatV(NaN), "time">>, <<Matrix4V(1), "model">>,
      <<VecFloatV(<<1, 0, 0, 1>>), "diffuse">>, <<VecFloatV(<<1, 0, 0, 1, 1>>), "diffuse">>,
      <<FloatV(1), "diffuse">> }

\* the calls of set made while sources are edited and reloaded (update and
\* render set "time" and "model")
ReloadSetCalls == { <<VecFloatV(<<1, 0, 0, 1>>), "diffuse">> }

\* the calls of direct_set: <<value, name>>
DirectSetCalls == { <<FloatV(1), "time">>, <<Matrix4V(1), "diffuse">> }

\* Transform::mat() of the renderable
ModelValues == {1}

\* glfwGetTime() as f32
ClockValues == {2}

\* PartialEq of the cached payload and the new value (*cached == value)
PartialEq(a, b) ==
    /\ Len(a.v) = Len(b.v)
    /\ \A i \in 1..Len(a.v) :
          /\ a.v[i] = b.v[i]
          /\ (a.kind \in FloatKinds => a.v[i] # NaN)

----------------------------------------------------------------------------
(* Shader source texts *)

ProcessedMarker == "//processed"
ReloadSentinel == "//proccessed"

VertGood == <<"Matrices", "model", "diffuse", "main">>
VertTime == <<"Matrices", "model", "diffuse", "time", "main">>
VertNoBlock == <<"model", "diffuse", "main">>
VertBroken == <<"Matrices", "model", "bad">>
VertProcessed == <<ProcessedMarker, "Matrices", "model", "main">>
VertProccessed == <<ReloadSentinel, "Matrices", "model", "main">>

VertTexts == {VertGood, VertTime, VertNoBlock, VertBroken,
              VertProcessed, VertProccessed}
FragGood == <<"main">>
FragUnlinked == <<"main", "unlinked">>
FragTexts == {FragGood, <<"bad">>, FragUnlinked}
GeoTexts == {<<>>, <<"main">>}

Stages == {"vert", "frag", "geo"}
TextsOf(s) == IF s = "vert" THEN VertTexts ELSE IF s = "frag" THEN FragTexts ELSE GeoTexts

\* str::contains at token granularity
Contains(text, marker) == \E i \in 1..Len(text) : text[i] = marker

\* glCompileShader sets COMPILE_STATUS
CompileStatus(text) == ~Contains(text, "bad")

\* glLinkProgram sets LINK_STATUS
LinkStatus(v, f, g) == ~(Contains(v, "unlinked") \/ Contains(f, "unlinked") \/ Contains(g, "unlinked"))

\* what glCreateShader / glCreateProgram hand back during one compile: every
\* handle is live, or the named one is 0, with or without an error flagged
AllHandlesLive == [null |-> "none", flagged |-> FALSE]
AllocOutcomes ==
    {AllHandlesLive, [null |-> "geo", flagged |-> TRUE]}
        \cup {[null |-> n, flagged |-> b] : n \in {"vert", "program"}, b \in BOOLEAN}

\* the uniforms a linked program reports through glGetUniformLocation
ActiveUniforms(v, f, g) == {n \in Names : Contains(v, n) \/ Contains(f, n) \/ Contains(g, n)}
HasBlock(v, f, g) == Contains(v, "Matrices") \/ Contains(f, "Matrices") \/ Contains(g, "Matrices")

----------------------------------------------------------------------------
(* The GL context as the operations below see it *)

GL == [error |-> gl_error, current |-> current_program, created |-> created,
       active |-> active, block |-> block_bound, vals |-> uniform_vals]

NoVals == [n \in Names |-> NoValue]

\* glUniform* on a uniform of another type raises GL_INVALID_OPERATION
TypeAccepts(n, value) ==
    CASE n = "model"   -> value.kind = "Matrix4"
      [] n = "diffuse" -> value.kind = "VecFloat" /\ Len(value.v) = 4
      [] n = "time"    -> value.kind = "Float" \/ (value.kind = "VecFloat" /\ Len(value.v) = 1)
      [] n = "emissive" -> value.kind = "VecFloat" /\ Len(value.v) = 4
      [] n \in {"specular", "specular_exponent"} ->
            value.kind = "Float" \/ (value.kind = "VecFloat" /\ Len(value.v) = 1)

\* the match value.len() of the Vec<..> upload closures
VecLenOK(value) == value.kind \in VecKinds => Len(value.v) \in 1..4

direct_set_unwrap(prog, g, value, name) ==
    IF prog = 0
    THEN [res |-> "Panic", g |-> g, uploads |-> 0, touched |-> FALSE, activated |-> FALSE]
    ELSE [res |-> "Ok", g |-> [g EXCEPT !.current = prog, !.vals[name] = value],
          uploads |-> 1, touched |-> TRUE, activated |-> g.current # prog]

direct_set_unused(prog, g, value, name) ==
    IF prog = 0 \/ name \notin g.active \/ ~VecLenOK(value)
    THEN [res |-> "Err", g |-> g, uploads |-> 0, touched |-> prog # 0, activated |-> FALSE]
    ELSE IF ~TypeAccepts(name, value) \/ g.error
    THEN [res |-> "Err", g |-> [g EXCEPT !.error = FALSE], uploads |-> 1, touched |-> TRUE,
          activated |-> FALSE]
    ELSE [res |-> "Ok", g |-> [g EXCEPT !.vals[name] = value], uploads |-> 1,
          touched |-> TRUE, activated |-> FALSE]

\* SetValue::direct_set: activate, resolve, upload, check the error flag
direct_set(prog, g, value, name) ==
    LET used == IF prog = 0 THEN TRUE ELSE g.current = prog
        g1 == IF used THEN g ELSE [g EXCEPT !.current = prog]
    IN  IF prog = 0
        THEN [res |-> "Err", g |-> g1, uploads |-> 0, touched |-> FALSE, activated |-> FALSE]
        ELSE IF name \notin g1.active
        THEN [res |-> "Err", g |-> g1, uploads |-> 0, touched |-> TRUE, activated |-> ~used]
        ELSE IF ~VecLenOK(value)
        THEN [res |-> "Err", g |-> g1, uploads |-> 0, touched |-> TRUE, activated |-> ~used]
        ELSE LET g2 == IF TypeAccepts(name, value)
                       THEN [g1 EXCEPT !.vals[name] = value]
                       ELSE [g1 EXCEPT !.error = TRUE]
             IN  IF g2.error
                 THEN [res |-> "Err", g |-> [g2 EXCEPT !.error = FALSE],
                       uploads |-> 1, touched |-> TRUE, activated |-> ~used]
                 ELSE [res |-> "Ok", g |-> g2, uploads |-> 1, touched |-> TRUE,
                       activated |-> ~used]

CacheHitAnyKind(c, value, name) == c[name] # NoValue /\ PartialEq(c[name], value)
CacheHitNever(c, value, name) == FALSE
CacheHitKindOnly(c, value, name) == c[name].kind = value.kind

\* the cache test at the head of SetValue::set
CacheHit(c, value, name) == c[name].kind = value.kind /\ PartialEq(c[name], value)

set_insert_first(prog, c, g, value, name) ==
    IF CacheHit(c, value, name)
    THEN [res |-> "Ok", g |-> g, cache |-> c, uploads |-> 0, touched |-> FALSE,
          activated |-> FALSE]
    ELSE LET d == direct_set(prog, g, value, name)
         IN  [res |-> d.res, g |-> d.g, cache |-> [c EXCEPT ![name] = value],
              uploads |-> d.uploads, touched |-> d.touched, activated |-> d.activated]

\* SetValue::set
set(prog, c, g, value, name) ==
    IF CacheHit(c, value, name)
    THEN [res |-> "Ok", g |-> g, cache |-> c, uploads |-> 0, touched |-> FALSE,
          activated |-> FALSE]
    ELSE LET d == direct_set(prog, g, value, name)
         IN  [res |-> d.res, g |-> d.g,
              cache |-> IF d.res = "Ok" THEN [c EXCEPT ![name] = value] ELSE c,
              uploads |-> d.uploads, touched |-> d.touched, activated |-> d.activated]

----------------------------------------------------------------------------
(* Compilation and hot reload *)

\* Shader::compile with create_shader, create_program, compile_subshader and
\* bind_matrices.  A null vertex, fragment or program handle runs
\* find_gl_error().err().unwrap(), which panics when no error is pending.  The
\* geometry handle is not tested: compile_subshader on handle 0 raises GL
\* errors, reads COMPILE_STATUS as 0 and panics in find_gl_error().expect(..).
\* A stage that fails to compile runs the same expect, which panics when an
\* error is pending; a link failure returns Err; bind_matrices leaves
\* GL_INVALID_VALUE pending when the program has no Matrices block.
compile(g, vert_source, frag_source, geo_source, alloc) ==
    LET g0 == [g EXCEPT !.created = @ + 1]
        stages == (IF geo_source # <<>> THEN <<geo_source>> ELSE <<>>)
                      \o <<vert_source, frag_source>>
        failed == \E i \in 1..Len(stages) : ~CompileStatus(stages[i])
        block == HasBlock(vert_source, frag_source, geo_source)
        none == [res |-> "Err", g |-> g0, handle |-> 0, active |-> {}, block |-> FALSE,
                 cause |-> "none"]
    IN  IF alloc.null \in {"vert", "frag", "program"}
        THEN [none EXCEPT !.res = IF g.error \/ alloc.flagged THEN "Err" ELSE "Panic",
                          !.g = [g EXCEPT !.error = FALSE], !.cause = "null_handle"]
        ELSE IF alloc.null = "geo" /\ geo_source # <<>>
        THEN [none EXCEPT !.res = "Panic", !.g = [g0 EXCEPT !.error = TRUE],
                          !.cause = "null_handle"]
        ELSE IF failed
        THEN [none EXCEPT !.res = IF g0.error THEN "Panic" ELSE "Err",
                          !.g = [g0 EXCEPT !.error = FALSE], !.cause = "stage_failed"]
        ELSE IF ~LinkStatus(vert_source, frag_source, geo_source)
        THEN [none EXCEPT !.cause = "link_failed"]
        ELSE [res |-> "Ok",
              g |-> [g0 EXCEPT !.error = @ \/ ~block], handle |-> g0.created,
              active |-> ActiveUniforms(vert_source, frag_source, geo_source),
              block |-> block, cause |-> "ok"]

\* the GL context after the shader's handle is replaced by a fresh program
Swap(g, c) == [g EXCEPT !.active = c.active, !.block = c.block, !.vals = NoVals]

\* the iteration orders of the cache HashMap
Cached(c) == {n \in Names : c[n] # NoValue}
Orders(S) == {o \in [1..Cardinality(S) -> S] : \A i, j \in 1..Cardinality(S) : o[i] = o[j] => i = j}

RECURSIVE load_from(_, _, _, _, _, _)
load_from(prog, c, g, order, i, uploads) ==
    IF i > Len(order)
    THEN [res |-> "Ok", g |-> g, uploads |-> uploads]
    ELSE LET d == direct_set(prog, g, c[order[i]], order[i])
         IN  IF d.res = "Err"
             THEN [res |-> "Panic", g |-> d.g, uploads |-> uploads + d.uploads]
             ELSE load_from(prog, c, d.g, order, i + 1, uploads + d.uploads)

load_cached_uniforms_skipped(prog, c, g, order) == [res |-> "Ok", g |-> g, uploads |-> 0]

\* Shader::load_cached_uniforms: direct_set(..).expect(..) for every entry
load_cached_uniforms(prog, c, g, order) == load_from(prog, c, g, order, 1, 0)

\* load_file of <path>.vert, <path>.frag and, if it exists, <path>.geo
\* (a <path>.geo that does not exist reads as the empty text)
ReadSources == <<disk["vert"], disk["frag"], disk["geo"]>>
Readable == "vert" \in exists /\ "frag" \in exists

SourcesChangedAlways(read, ds) == TRUE

\* the condition under which try_runtime_recompile compiles
SourcesChanged(read, ds) == read[1] # ds[1] \/ read[2] # ds[2] \/ read[3] # ds[3]
ShouldRecompile(read, ds) == SourcesChanged(read, ds) /\ ~Contains(read[1], ReloadSentinel)

NewBaselineOnSuccess(read, ds, ok) == IF ok THEN read ELSE ds
NewBaselineNever(read, ds, ok) == ds

\* the baseline recorded after a compile attempt
NewBaseline(read, ds, ok) == read

\* Shader::try_runtime_recompile as a function of the state it reads: the
\* shader's fields, the files, and the cache c0 and GL context g0 it finds
try_runtime_recompile(c0, g0, order, alloc) ==
    LET same == [program |-> program, debug_sources |-> debug_sources, g |-> g0,
                 res |-> "Ok", compiles |-> 0, uploads |-> 0, outcome |-> "same",
                 cause |-> "none"]
    IN  IF ~path THEN [same EXCEPT !.outcome = "nopath"]
        ELSE IF ~Readable \/ Len(debug_sources) < 3
        THEN [same EXCEPT !.res = "Panic", !.outcome = "unreadable"]
        ELSE IF ~ShouldRecompile(ReadSources, debug_sources)
        THEN [same EXCEPT !.outcome =
                 IF SourcesChanged(ReadSources, debug_sources) THEN "sentinel" ELSE "same"]
        ELSE LET c == compile(g0, ReadSources[1], ReadSources[2], ReadSources[3], alloc)
             IN  IF c.res = "Panic"
                 THEN [same EXCEPT !.g = c.g, !.res = "Panic", !.compiles = 1,
                                   !.outcome = "compile_failed", !.cause = c.cause]
                 ELSE IF c.res = "Err"
                 THEN [same EXCEPT !.g = c.g, !.compiles = 1, !.outcome = "compile_failed",
                                   !.cause = c.cause,
                                   !.debug_sources = NewBaseline(ReadSources, debug_sources, FALSE)]
                 ELSE LET l == load_cached_uniforms(c.handle, c0, Swap(c.g, c), order)
                      IN  [program |-> c.handle,
                           debug_sources |-> IF l.res = "Ok"
                                             THEN NewBaseline(ReadSources, debug_sources, TRUE)
                                             ELSE debug_sources,
                           g |-> l.g, res |-> l.res, compiles |-> 1,
                           uploads |-> l.uploads, outcome |-> "compiled", cause |-> c.cause]

----------------------------------------------------------------------------
(* Operations *)

NoOp == [op |-> "init", name |-> "", value |-> NoValue, res |-> "Ok", uploads |-> 0,
         touched |-> FALSE, compiles |-> 0, outcome |-> "", repeat |-> FALSE,
         prior |-> "", old_program |-> 0, cause |-> "none", calls |-> 0,
         activated |-> FALSE, holder |-> "", trace |-> <<>>, count |-> 0]

\* no renderable has been built; Draw holds no shapes; no frame is running
NoMesh == [kind |-> "none"]
NoShapes == [rectangles |-> <<>>, circles |-> <<>>, rectangle_mesh |-> <<>>, circle_mesh |-> <<>>]
NoFrame == [pc |-> "idle", k |-> 0, wireframe |-> FALSE, guards |-> {}]

SetGL(g) ==
    /\ gl_error' = g.error
    /\ current_program' = g.current
    /\ created' = g.created
    /\ active' = g.active
    /\ block_bound' = g.block
    /\ uniform_vals' = g.vals

Init ==
    /\ path = FALSE
    /\ debug_sources = <<>>
    /\ program = 0
    /\ cache = NoVals
    /\ optionals = 0
    /\ \E v \in VertTexts :
          disk = [s \in Stages |-> IF s = "vert" THEN v ELSE IF s = "frag" THEN FragGood ELSE <<>>]
    /\ exists = {"vert", "frag"}
    /\ edits = 0
    /\ gl_error = FALSE
    /\ current_program = 0
    /\ created = 0
    /\ active = {}
    /\ block_bound = FALSE
    /\ uniform_vals = NoVals
    /\ vbos = <<FALSE>>
    /\ structure = <<>>
    /\ vertex_buffers = <<>>
    /\ attribs = <<>>
    /\ transforms = 0
    /\ current_frame_time = 0
    /\ last_tick = 0
    /\ frame_index = 0
    /\ frame_events = <<>>
    /\ sweep_times = <<>>
    /\ shaders = <<>>
    /\ sweep = [attempts |-> <<>>, res |-> "none"]
    /\ assembly = <<>>
    /\ mesh = NoMesh
    /\ draw = NoShapes
    /\ frame = NoFrame
    /\ panicked = FALSE
    /\ last = NoOp

\* no Shader has been built yet (Shader::default())
Unbuilt == program = 0 /\ ~path /\ debug_sources = <<>>

ConstructWithoutProgram(op, sources, with_path, probe, alloc) ==
    LET c == compile(GL, sources[1], sources[2], sources[3], alloc)
    IN  /\ last' = [NoOp EXCEPT !.op = op, !.res = c.res, !.compiles = 1, !.cause = c.cause]
        /\ panicked' = (c.res = "Panic")
        /\ SetGL(c.g)
        /\ path' = (with_path /\ c.res = "Ok")
        /\ UNCHANGED <<debug_sources, program, optionals, cache>>

\* a constructor ran ret.compile(..)? and, when asked, check_optionals
Construct(op, sources, with_path, probe, alloc) ==
    LET c == compile(GL, sources[1], sources[2], sources[3], alloc)
    IN  /\ last' = [NoOp EXCEPT !.op = op, !.res = c.res, !.compiles = 1, !.cause = c.cause]
        /\ panicked' = (c.res = "Panic")
        /\ IF c.res = "Ok"
           THEN /\ SetGL(Swap(c.g, c))
                /\ program' = c.handle
                /\ path' = with_path
                /\ debug_sources' = IF with_path THEN sources ELSE <<>>
                /\ optionals' = IF probe /\ "time" \in c.active THEN 1 ELSE 0
                /\ cache' = NoVals
           ELSE /\ SetGL(c.g)
                /\ UNCHANGED shaderVars

\* Shader::load_from_path
LoadFromPath ==
    /\ ~panicked /\ Unbuilt /\ created < MaxPrograms
    /\ UNCHANGED <<diskVars, vaoVars, transforms, engineVars, managerVars, assembly, sceneVars>>
    /\ IF ~Readable
       THEN /\ panicked' = TRUE
            /\ last' = [NoOp EXCEPT !.op = "load_from_path", !.res = "Panic"]
            /\ UNCHANGED <<shaderVars, glVars>>
       ELSE \E alloc \in AllocOutcomes :
               Construct("load_from_path", ReadSources, TRUE, TRUE, alloc)

\* Shader::from_source
FromSource(vert_source, frag_source, geo_source) ==
    /\ ~panicked /\ Unbuilt /\ created < MaxPrograms
    /\ UNCHANGED <<diskVars, vaoVars, transforms, engineVars, managerVars, assembly, sceneVars>>
    /\ \E alloc \in AllocOutcomes :
          Construct("from_source", <<vert_source, frag_source, geo_source>>, FALSE, FALSE, alloc)

\* SetValue::set called on the shader
Set(value, name) ==
    LET r == set(program, cache, GL, value, name)
    IN  /\ ~panicked
        /\ cache' = r.cache
        /\ SetGL(r.g)
        /\ last' = [NoOp EXCEPT !.op = "set", !.name = name, !.value = value,
                       !.res = r.res, !.uploads = r.uploads, !.touched = r.touched,
                       !.activated = r.activated,
                       !.repeat = (last.op = "set" /\ last.res = "Ok"
                                   /\ last.name = name /\ last.value = value),
                       !.prior = IF cache[name] = NoValue THEN "absent"
                                 ELSE IF cache[name] = value THEN "equal" ELSE "different"]
        /\ UNCHANGED <<path, debug_sources, program, optionals, diskVars, panicked,
                       vaoVars, transforms, engineVars, managerVars, assembly, sceneVars>>

DirectSetThroughCache(value, name) ==
    LET r == set(program, cache, GL, value, name)
    IN  /\ ~panicked
        /\ cache' = r.cache
        /\ SetGL(r.g)
        /\ last' = [NoOp EXCEPT !.op = "direct_set", !.name = name, !.value = value,
                       !.res = r.res, !.uploads = r.uploads, !.touched = r.touched,
                       !.activated = r.activated]
        /\ UNCHANGED <<path, debug_sources, program, optionals, diskVars, panicked,
                       vaoVars, transforms, engineVars, managerVars, assembly, sceneVars>>

\* SetValue::direct_set called on the shader
DirectSet(value, name) ==
    LET d == direct_set(program, GL, value, name)
    IN  /\ ~panicked
        /\ SetGL(d.g)
        /\ last' = [NoOp EXCEPT !.op = "direct_set", !.name = name, !.value = value,
                       !.res = d.res, !.uploads = d.uploads, !.touched = d.touched,
                       !.activated = d.activated]
        /\ UNCHANGED <<shaderVars, diskVars, panicked, vaoVars, transforms, engineVars, managerVars, assembly, sceneVars>>

\* Shader::use_
use_(prog, g) == IF prog = 0 THEN g ELSE [g EXCEPT !.current = prog]

Use ==
    /\ ~panicked
    /\ SetGL(use_(program, GL))
    /\ last' = [NoOp EXCEPT !.op = "use", !.touched = (program # 0)]
    /\ UNCHANGED <<shaderVars, diskVars, panicked, vaoVars, transforms, engineVars, managerVars, assembly, sceneVars>>

\* Shader::update with update_optionals
update(prog, c, g, opt, t) ==
    IF opt % 2 = 1
    THEN set(prog, c, g, FloatV(t), "time")
    ELSE [res |-> "Ok", g |-> g, cache |-> c, uploads |-> 0, touched |-> FALSE,
          activated |-> FALSE]

Update(t) ==
    LET r == update(program, cache, GL, optionals, t)
    IN  /\ ~panicked
        /\ cache' = r.cache
        /\ SetGL(r.g)
        /\ last' = [NoOp EXCEPT !.op = "update", !.res = r.res, !.uploads = r.uploads,
                       !.touched = r.touched]
        /\ UNCHANGED <<path, debug_sources, program, optionals, diskVars, panicked,
                       vaoVars, transforms, engineVars, managerVars, assembly, sceneVars>>

\* the sweep will reach self.compile(..)
WillCompile ==
    path /\ Readable /\ Len(debug_sources) = 3 /\ ShouldRecompile(ReadSources, debug_sources)

\* the orders in which load_cached_uniforms may walk the cache c after the
\* sweep's compile, on GL context g with handles as in alloc: the cache is
\* walked only when the compile returns a program
ReplayOrders(c, g, alloc) ==
    IF WillCompile /\ compile(g, ReadSources[1], ReadSources[2], ReadSources[3], alloc).res = "Ok"
    THEN Orders(Cached(c))
    ELSE {<<>>}

\* Shader::try_runtime_recompile, as ShaderManager::update runs it
Reload ==
    /\ ~panicked
    /\ \E alloc \in (IF WillCompile THEN AllocOutcomes ELSE {AllHandlesLive}) :
       \E order \in ReplayOrders(cache, GL, alloc) :
          LET r == try_runtime_recompile(cache, GL, order, alloc)
          IN  /\ r.compiles > 0 => created < MaxPrograms
              /\ program' = r.program
              /\ debug_sources' = r.debug_sources
              /\ SetGL(r.g)
              /\ panicked' = (r.res = "Panic")
              /\ last' = [NoOp EXCEPT !.op = "reload", !.res = r.res, !.compiles = r.compiles,
                             !.uploads = r.uploads, !.outcome = r.outcome,
                             !.old_program = program, !.cause = r.cause]
    /\ UNCHANGED <<path, cache, optionals, diskVars, vaoVars, transforms, engineVars, managerVars, assembly, sceneVars>>

render_model_once(prog, c, g, opt, m, t) ==
    LET g0 == use_(prog, g)
        u == update(prog, c, g0, opt, t)
        s == IF u.cache["model"] # NoValue
             THEN [res |-> "Ok", cache |-> u.cache, g |-> u.g, uploads |-> 0]
             ELSE set(prog, u.cache, u.g, Matrix4V(m), "model")
    IN  IF u.res = "Err" \/ s.res = "Err"
        THEN [res |-> "Panic", cache |-> s.cache, g |-> s.g,
              uploads |-> u.uploads + s.uploads, outcome |-> "set"]
        ELSE [res |-> "Ok", cache |-> s.cache, g |-> [s.g EXCEPT !.current = 0, !.error = FALSE],
              uploads |-> u.uploads + s.uploads, outcome |-> "drawn"]

\* Renderable::render of a visible renderable that uses the shader: use_,
\* update().expect(..), set(model).expect(..), bind, find_gl_error()?, draw,
\* clear_shader
render(prog, c, g, opt, m, t) ==
    LET g0 == use_(prog, g)
        u == update(prog, c, g0, opt, t)
        s == set(prog, u.cache, u.g, Matrix4V(m), "model")
    IN  IF u.res = "Err"
        THEN [res |-> "Panic", cache |-> u.cache, g |-> u.g, uploads |-> u.uploads,
              outcome |-> "update"]
        ELSE IF s.res = "Err"
        THEN [res |-> "Panic", cache |-> s.cache, g |-> s.g,
              uploads |-> u.uploads + s.uploads, outcome |-> "set"]
        ELSE IF s.g.error
        THEN [res |-> "Err", cache |-> s.cache, g |-> [s.g EXCEPT !.error = FALSE],
              uploads |-> u.uploads + s.uploads, outcome |-> "bind"]
        ELSE [res |-> "Ok", cache |-> s.cache, g |-> [s.g EXCEPT !.current = 0],
              uploads |-> u.uploads + s.uploads, outcome |-> "drawn"]

\* Renderable::render, which returns at once when the renderable is hidden
Render(m, t, is) ==
    /\ ~panicked
    /\ UNCHANGED <<path, debug_sources, program, optionals, diskVars, vaoVars, transforms, engineVars, managerVars, assembly, sceneVars>>
    /\ IF ~is
       THEN /\ last' = [NoOp EXCEPT !.op = "render"]
            /\ UNCHANGED <<cache, glVars, panicked>>
       ELSE LET r == render(program, cache, GL, optionals, m, t)
            IN  /\ panicked' = (r.res = "Panic")
                /\ cache' = r.cache
                /\ SetGL(r.g)
                /\ last' = [NoOp EXCEPT !.op = "render", !.res = r.res,
                               !.uploads = r.uploads, !.outcome = r.outcome]

\* the Renderables that hold clones of the shader's ShaderPtr, and the
\* Transform::mat() of each
Holders == {"A", "B", "C"}
Transform(h) == IF h = "B" THEN 2 ELSE 1

\* Renderable::render of holder h, whose self.shader.borrow_mut() is the
\* one Shader every holder points to
RenderBy(h, t) ==
    LET r == render(program, cache, GL, optionals, Transform(h), t)
    IN  /\ ~panicked /\ program # 0
        /\ panicked' = (r.res = "Panic")
        /\ cache' = r.cache
        /\ SetGL(r.g)
        /\ last' = [NoOp EXCEPT !.op = "render_by", !.holder = h, !.res = r.res,
                       !.uploads = r.uploads, !.outcome = r.outcome]
        /\ UNCHANGED <<path, debug_sources, program, optionals, diskVars, vaoVars,
                       transforms, engineVars, managerVars, assembly, sceneVars>>

SkipNever(n) == FALSE

\* the test at the head of InstancedObject::render: transforms.is_empty()
SkipDraw(n) == n = 0

Call(f, arg) == [call |-> f, arg |-> arg]

InstancedCallsShaderFirst(n) ==
    <<Call("use_", 0), Call("update", 0), Call("buffer_data", 1), Call("buffer_data", 2),
      Call("DrawElementsInstanced", n)>>

\* what InstancedObject::render of n transforms calls, in order: buffer_data
\* uploads vbos[1] and vbos[2], then shader.use_(), shader.update(), and
\* glDrawElementsInstanced with transforms.len() instances
InstancedCalls(n) ==
    <<Call("buffer_data", 1), Call("buffer_data", 2), Call("use_", 0), Call("update", 0),
      Call("DrawElementsInstanced", n)>>

\* InstancedObject::render with InstancedObject::buffer_data: upload the
\* matrices and colours, activate and update the shader, draw
instanced_render(n, prog, c, g, opt, t) ==
    IF SkipDraw(n)
    THEN [res |-> "Ok", g |-> g, cache |-> c, uploads |-> 0, calls |-> 0, trace |-> <<>>]
    ELSE IF g.error
    THEN [res |-> "Err", g |-> [g EXCEPT !.error = FALSE], cache |-> c,
          uploads |-> 0, calls |-> 1, trace |-> SubSeq(InstancedCalls(n), 1, 1)]
    ELSE LET g1 == use_(prog, g)
             u == update(prog, c, g1, opt, t)
             n_use == IF prog = 0 THEN 0 ELSE 1
         IN  IF u.res = "Err"
             THEN [res |-> "Panic", g |-> u.g, cache |-> u.cache, uploads |-> u.uploads,
                   calls |-> 2 + n_use + u.uploads, trace |-> SubSeq(InstancedCalls(n), 1, 4)]
             ELSE [res |-> "Ok", g |-> u.g, cache |-> u.cache, uploads |-> u.uploads,
                   calls |-> 2 + n_use + u.uploads + 3, trace |-> InstancedCalls(n)]

InstancedRender(t) ==
    LET r == instanced_render(transforms, program, cache, GL, optionals, t)
    IN  /\ ~panicked
        /\ cache' = r.cache
        /\ SetGL(r.g)
        /\ panicked' = (r.res = "Panic")
        /\ last' = [NoOp EXCEPT !.op = "instanced_render", !.res = r.res,
                       !.uploads = r.uploads, !.calls = r.calls, !.trace = r.trace]
        /\ UNCHANGED <<path, debug_sources, program, optionals, diskVars, vaoVars, transforms, engineVars, managerVars, assembly, sceneVars>>

\* InstancedObject::set_data
SetData(n) ==
    /\ ~panicked /\ n # transforms
    /\ transforms' = n
    /\ last' = [NoOp EXCEPT !.op = "set_data"]
    /\ UNCHANGED <<shaderVars, diskVars, glVars, vaoVars, engineVars, managerVars, assembly, sceneVars, panicked>>

\* the user edits or deletes a shader source file
WriteFile(s, text) ==
    /\ ~panicked /\ edits < MaxEdits
    /\ disk[s] # text \/ s \notin exists \cup {"geo"}
    /\ edits' = edits + 1
    /\ disk' = [disk EXCEPT ![s] = text]
    /\ exists' = exists \cup ({s} \ {"geo"})
    /\ last' = [NoOp EXCEPT !.op = "edit"]
    /\ UNCHANGED <<shaderVars, glVars, panicked, vaoVars, transforms, engineVars, managerVars, assembly, sceneVars>>

DeleteFile(s) ==
    /\ ~panicked /\ edits < MaxEdits
    /\ s \in exists
    /\ edits' = edits + 1
    /\ disk' = [disk EXCEPT ![s] = <<>>]
    /\ exists' = exists \ {s}
    /\ last' = [NoOp EXCEPT !.op = "edit"]
    /\ UNCHANGED <<shaderVars, glVars, panicked, vaoVars, transforms, engineVars, managerVars, assembly, sceneVars>>

\* a shader under hot reload: constructors, uniform traffic, reload sweeps,
\* renders and edits of the source files
Next ==
    \/ LoadFromPath
    \/ \E v \in VertTexts, f \in FragTexts, g \in GeoTexts : FromSource(v, f, g)
    \/ \E call \in ReloadSetCalls : Set(call[1], call[2])
    \/ \E t \in ClockValues : Update(t)
    \/ Reload
    \/ \E m \in ModelValues, t \in ClockValues : Render(m, t, TRUE)
    \/ \E s \in Stages : \E text \in TextsOf(s) : WriteFile(s, text)
    \/ \E s \in {"vert", "frag"} : DeleteFile(s)

Spec == Init /\ [][Next]_vars

\* a shader whose sources stay as they are: constructors and the uniform
\* interface (set, direct_set, use_, update, render)
NextUniforms ==
    \/ LoadFromPath
    \/ \E v \in VertTexts, f \in FragTexts, g \in GeoTexts : FromSource(v, f, g)
    \/ \E call \in SetCalls : Set(call[1], call[2])
    \/ \E call \in DirectSetCalls : DirectSet(call[1], call[2])
    \/ Use
    \/ \E t \in ClockValues : Update(t)
    \/ \E m \in ModelValues, t \in ClockValues, is \in BOOLEAN : Render(m, t, is)
    \/ \E n \in 0..MaxTransforms : SetData(n)
    \/ \E t \in ClockValues : InstancedRender(t)

SpecUniforms == Init /\ [][NextUniforms]_vars

\* the calls of set that put values of different kinds under one name
KindSetCalls ==
    { <<FloatV(1), "time">>, <<VecFloatV(<<1>>), "time">>, <<VecFloatV(<<1, 0, 0, 1, 1>>), "time">>,
      <<FloatV(1), "diffuse">>, <<VecFloatV(<<1, 0, 0, 1>>), "diffuse">> }

\* a shader that is handed values of several kinds
NextKinds ==
    \/ LoadFromPath
    \/ \E call \in KindSetCalls : Set(call[1], call[2])

SpecKinds == Init /\ [][NextKinds]_vars

\* one path-backed shader shared by three renderables: renders through each
\* holder, a uniform set, reload sweeps and edits of the vertex source
NextShared ==
    \/ LoadFromPath
    \/ \E h \in Holders, t \in ClockValues : RenderBy(h, t)
    \/ \E call \in ReloadSetCalls : Set(call[1], call[2])
    \/ Reload
    \/ \E text \in VertTexts : WriteFile("vert", text)

SpecShared == Init /\ [][NextShared]_vars

----------------------------------------------------------------------------
(* Vertex arrays: VAA, BufferObject, VertexArrayObject::configure *)

\* VertexArrayObject::get_type_size
get_type_size(kind) ==
    CASE kind = "FLOAT"          -> 4
      [] kind = "UNSIGNED_INT"   -> 4
      [] kind = "BYTE"           -> 1
      [] kind = "UNSIGNED_BYTE"  -> 1
      [] kind = "SHORT"          -> 2
      [] kind = "UNSIGNED_SHORT" -> 2
      [] kind = "INT"            -> 4
      [] kind = "DOUBLE"         -> 8

\* VAA::new
VAA_new(kind, amount, vbo_index) ==
    [kind |-> kind, amount |-> amount, type_size |-> get_type_size(kind),
     mem_size |-> get_type_size(kind) * amount, vbo_index |-> vbo_index]

\* the attributes callers describe, and the lists handed to configure
VAAs == { VAA_new("FLOAT", 3, 0), VAA_new("FLOAT", 2, 0), VAA_new("SHORT", 2, 1) }
AttributeLists == UNION {[1..n -> VAAs] : n \in 0..MaxAttrs}

\* what an attribute adds to the stride and to the running offset of its buffer
mem_size(a) == a.mem_size

\* the first loop of configure: stride.entry(vbo_index).or_insert(0), then add
RECURSIVE AddStrides(_, _, _)
AddStrides(st, i, stride) ==
    IF i > Len(st)
    THEN stride
    ELSE LET b == st[i].vbo_index
             cur == IF b \in DOMAIN stride THEN stride[b] ELSE 0
         IN  AddStrides(st, i + 1,
                 [x \in DOMAIN stride \cup {b} |->
                     IF x = b THEN cur + mem_size(st[i]) ELSE stride[x]])

\* the second loop: glVertexArrayVertexBuffer(id, i, vbos[i].id, 0, stride[&i]),
\* where stride[&i] panics when no attribute names buffer i
RECURSIVE BindBuffers(_, _, _, _)
BindBuffers(n, stride, i, bound) ==
    IF i >= n
    THEN [res |-> "Ok", bound |-> bound]
    ELSE IF i \notin DOMAIN stride
    THEN [res |-> "Panic", bound |-> bound]
    ELSE BindBuffers(n, stride, i + 1, Append(bound, stride[i]))

OffsetAfter(off, a) == off + mem_size(a)

\* the offset handed to glVertexArrayAttribFormat for an attribute, given the
\* running offset of its buffer
OffsetGiven(off, a) == off

\* the third loop: enable, format at pointer_offset[&vbo_index] (which panics
\* for a buffer index that is not below vbos.len()), bind, advance the offset
RECURSIVE FormatAttribs(_, _, _, _)
FormatAttribs(st, k, pointer_offset, formats) ==
    IF k > Len(st)
    THEN [res |-> "Ok", formats |-> formats]
    ELSE LET a == st[k]
             b == a.vbo_index
         IN  IF b \notin DOMAIN pointer_offset
             THEN [res |-> "Panic", formats |-> formats]
             ELSE FormatAttribs(st, k + 1,
                      [pointer_offset EXCEPT ![b] = @ + mem_size(a)],
                      Append(formats, [amount |-> a.amount, kind |-> a.kind,
                                       offset |-> OffsetGiven(pointer_offset[b], a),
                                       binding |-> b]))

AllBuffered(vb) == \A i \in 1..Len(vb) : vb[i]
AnyBuffered(vb) == \E i \in 1..Len(vb) : vb[i]

\* the state check at the head of configure
Configurable(vb) == AllBuffered(vb)

\* VertexArrayObject::configure; the closing find_gl_error() reports an error
\* that is pending (the sizes and types handed in here raise none)
configure(vb, st, error) ==
    IF ~Configurable(vb)
    THEN [res |-> "Err", bound |-> <<>>, formats |-> <<>>, error |-> error, calls |-> 0]
    ELSE LET stride == AddStrides(st, 1, [x \in {} |-> 0])
             bb == BindBuffers(Len(vb), stride, 0, <<>>)
             fa == FormatAttribs(st, 1, [i \in 0..(Len(vb) - 1) |-> 0], <<>>)
             raised == error
         IN  IF bb.res = "Panic"
             THEN [res |-> "Panic", bound |-> bb.bound, formats |-> <<>>, error |-> error,
                   calls |-> Len(bb.bound)]
             ELSE IF fa.res = "Panic"
             THEN [res |-> "Panic", bound |-> bb.bound, formats |-> fa.formats,
                   error |-> raised, calls |-> Len(bb.bound) + 3 * Len(fa.formats) + 1]
             ELSE [res |-> IF raised THEN "Err" ELSE "Ok", bound |-> bb.bound,
                   formats |-> fa.formats, error |-> FALSE,
                   calls |-> Len(bb.bound) + 3 * Len(fa.formats)]

\* mesh.vertex_array.vbos.push(BufferObject::new(ARRAY_BUFFER))
PushVbo ==
    /\ ~panicked /\ Len(vbos) < MaxVbos
    /\ vbos' = Append(vbos, FALSE)
    /\ last' = [NoOp EXCEPT !.op = "push_vbo"]
    /\ UNCHANGED <<shaderVars, diskVars, glVars, structure, vertex_buffers, attribs,
                   transforms, engineVars, managerVars, assembly, sceneVars, panicked>>

BufferDataFlagOnSuccess(i) ==
    /\ ~panicked /\ i \in 1..Len(vbos)
    /\ vbos' = [vbos EXCEPT ![i] = @ \/ ~gl_error]
    /\ gl_error' = FALSE
    /\ last' = [NoOp EXCEPT !.op = "buffer_data", !.calls = 1,
                   !.res = IF gl_error THEN "Err" ELSE "Ok"]
    /\ UNCHANGED <<shaderVars, diskVars, current_program, created, active, block_bound,
                   uniform_vals, structure, vertex_buffers, attribs, transforms, engineVars, managerVars, assembly, sceneVars,
                   panicked>>

\* BufferObject::buffer_data on vbos[i]
BufferData(i) ==
    /\ ~panicked /\ i \in 1..Len(vbos)
    /\ vbos' = [vbos EXCEPT ![i] = TRUE]
    /\ gl_error' = FALSE
    /\ last' = [NoOp EXCEPT !.op = "buffer_data", !.calls = 1,
                   !.res = IF gl_error THEN "Err" ELSE "Ok"]
    /\ UNCHANGED <<shaderVars, diskVars, current_program, created, active, block_bound,
                   uniform_vals, structure, vertex_buffers, attribs, transforms, engineVars, managerVars, assembly, sceneVars,
                   panicked>>

Configure(st) ==
    LET r == configure(vbos, st, gl_error)
    IN  /\ ~panicked
        /\ structure' = st
        /\ vertex_buffers' = r.bound
        /\ attribs' = r.formats
        /\ gl_error' = r.error
        /\ panicked' = (r.res = "Panic")
        /\ last' = [NoOp EXCEPT !.op = "configure", !.res = r.res, !.calls = r.calls]
        /\ UNCHANGED <<shaderVars, diskVars, current_program, created, active, block_bound,
                       uniform_vals, vbos, transforms, engineVars, managerVars, assembly, sceneVars>>

\* a vertex array being set up: buffers pushed and uploaded, then configured
NextVao ==
    \/ PushVbo
    \/ \E i \in 1..MaxVbos : BufferData(i)
    \/ \E st \in AttributeLists : Configure(st)

SpecVao == Init /\ [][NextVao]_vars

\* the layouts handed to configure while GL errors are about
BufferLayouts == { <<VAA_new("FLOAT", 3, 0)>>, <<VAA_new("FLOAT", 3, 0), VAA_new("SHORT", 2, 1)>> }

\* a vertex array set up after a shader was compiled, whose compile may have
\* left a GL error pending
NextBuffers ==
    \/ \E v \in VertTexts : FromSource(v, FragGood, <<>>)
    \/ PushVbo
    \/ \E i \in 1..MaxVbos : BufferData(i)
    \/ \E st \in BufferLayouts : Configure(st)

SpecBuffers == Init /\ [][NextBuffers]_vars

----------------------------------------------------------------------------
(* Meshes: MeshData::init, Renderable::new, InstancedObject::new and render *)

\* the vertex and index lists handed to the constructors, by their lengths,
\* and whether normals and texture coordinates come with them
MeshInputs == [vertices : {4}, indices : {4, 6}, normals : BOOLEAN, tex_coords : BOOLEAN]

\* the renderables of a RenderableGroup
GroupSizes == {1, 2}

\* the GL call of a constructor that reports an error, if any
FailPoints == {"none", "generate", "vertex_data", "index_data", "instance_data"}

\* MeshData::build_vertex_data: the floats pushed for one vertex
build_vertex_data(m) ==
    <<"x", "y", "z">>
        \o (IF m.normals THEN <<"normal.x", "normal.y", "normal.z">> ELSE <<>>)
        \o (IF m.tex_coords THEN <<"tex.x", "tex.y", "0.0">> ELSE <<>>)

\* the structure MeshData::init hands to configure
init_structure(m) ==
    <<VAA_new("FLOAT", 3, 0)>>
        \o (IF m.normals THEN <<VAA_new("FLOAT", 3, 0)>> ELSE <<>>)
        \o (IF m.tex_coords THEN <<VAA_new("FLOAT", 3, 0)>> ELSE <<>>)

\* the structure InstancedObject::new hands to configure: position, four
\* matrix rows, colour
instanced_structure ==
    <<VAA_new("FLOAT", 3, 0), VAA_new("FLOAT", 4, 1), VAA_new("FLOAT", 4, 1),
      VAA_new("FLOAT", 4, 1), VAA_new("FLOAT", 4, 1), VAA_new("FLOAT", 4, 2)>>

\* one step of a constructor on the vertex array va: VertexArrayObject::generate,
\* which starts with find_gl_error()?; a buffer_data; configure
generate_step(va, fails) ==
    IF va.error
    THEN [va EXCEPT !.res = "Err", !.error = FALSE]
    ELSE [va EXCEPT !.res = IF fails = "generate" THEN "Err" ELSE "Ok",
                    !.trace = Append(@, Call("generate", 0))]

vbo_step(va, i, failed) ==
    [va EXCEPT !.vbos[i + 1] = TRUE, !.res = IF failed THEN "Err" ELSE "Ok",
               !.trace = Append(@, Call("buffer_data", i))]

ebo_step(va, failed) ==
    [va EXCEPT !.ebo = TRUE, !.res = IF failed THEN "Err" ELSE "Ok",
               !.trace = Append(@, Call("ebo_buffer_data", 0))]

configure_step(va, st) ==
    LET r == configure(va.vbos, st, va.error)
    IN  [va EXCEPT !.res = r.res, !.structure = st, !.bound = r.bound, !.formats = r.formats,
                   !.error = r.error, !.configured = (r.res = "Ok"),
                   !.trace = Append(@, Call("configure", 0))]

\* VertexArrayObject::new with n vertex buffers, on a context whose error
\* flag is error
NewVertexArray(n, error) ==
    [res |-> "Ok", vbos |-> [i \in 1..n |-> FALSE], ebo |-> FALSE, structure |-> <<>>,
     bound |-> <<>>, formats |-> <<>>, error |-> error, configured |-> FALSE, trace |-> <<>>]

MeshData_init_configure_first(m, error, fails) ==
    LET a == generate_step(NewVertexArray(1, error), fails)
        b == configure_step(a, init_structure(m))
        c == vbo_step(b, 0, fails = "vertex_data")
        d == ebo_step(c, fails = "index_data")
    IN  IF a.res # "Ok" THEN a ELSE IF c.res # "Ok" THEN c ELSE d

\* MeshData::init: generate()?, vbos[0].buffer_data(..)?, ebo.buffer_data(..)?,
\* configure(structure)?
MeshData_init(m, error, fails) ==
    LET a == generate_step(NewVertexArray(1, error), fails)
        b == vbo_step(a, 0, fails = "vertex_data")
        c == ebo_step(b, fails = "index_data")
        d == configure_step(c, init_structure(m))
    IN  IF a.res # "Ok" THEN a ELSE IF b.res # "Ok" THEN b ELSE IF c.res # "Ok" THEN c ELSE d

\* InstancedObject::new after the two pushes: generate, the vertex and index
\* uploads, InstancedObject::buffer_data (vbos[1] then vbos[2]), configure and
\* the divisors, each .expect(..)ed
InstancedObject_new(m, error, fails) ==
    LET a == generate_step(NewVertexArray(3, error), fails)
        b == vbo_step(a, 0, fails = "vertex_data")
        c == ebo_step(b, fails = "index_data")
        d == vbo_step(c, 1, fails = "instance_data")
        e == vbo_step(d, 2, FALSE)
        f == configure_step(e, instanced_structure)
    IN  IF a.res # "Ok" THEN a ELSE IF b.res # "Ok" THEN b ELSE IF c.res # "Ok" THEN c
        ELSE IF d.res # "Ok" THEN d ELSE f

\* what the constructor of the kind does to a fresh vertex array
Constructed(kind, m, error, fails) ==
    IF kind = "InstancedObject" THEN InstancedObject_new(m, error, fails)
    ELSE MeshData_init(m, error, fails)

\* Renderable::new / new_with_tex, RenderableGroup::from_gltf (which builds
\* every renderable with new_with_tex) and InstancedObject::new with n
\* transforms: a failed step panics through expect, so that no object is built
MeshNew(kind, m, n, fails) ==
    /\ ~panicked /\ mesh = NoMesh /\ program # 0
    /\ kind = "Renderable" => (m.tex_coords => m.normals)
    /\ kind = "RenderableGroup" => (m.tex_coords /\ m.normals /\ n \in GroupSizes)
    /\ kind = "InstancedObject" => (~m.tex_coords /\ n \in 0..MaxTransforms)
    /\ kind = "Renderable" => n = 0
    /\ \E va \in {Constructed(kind, m, gl_error, fails)} :
          /\ panicked' = (va.res # "Ok")
          /\ mesh' = IF va.res # "Ok" THEN NoMesh
                     ELSE [kind |-> kind, vertices |-> m.vertices, indices |-> m.indices,
                           normals |-> m.normals, tex_coords |-> m.tex_coords, is |-> TRUE,
                           children |-> IF kind = "RenderableGroup" THEN n ELSE 0,
                           ebo |-> va.ebo, configured |-> va.configured, trace |-> va.trace,
                           written |-> Len(build_vertex_data(m)) * get_type_size("FLOAT")]
          /\ vbos' = va.vbos
          /\ structure' = va.structure
          /\ vertex_buffers' = va.bound
          /\ attribs' = va.formats
          /\ gl_error' = va.error
          /\ transforms' = IF kind = "InstancedObject" /\ va.res = "Ok" THEN n ELSE transforms
          /\ last' = [NoOp EXCEPT !.op = "mesh_new", !.res = IF va.res = "Ok" THEN "Ok" ELSE "Panic",
                         !.trace = va.trace]
    /\ UNCHANGED <<shaderVars, diskVars, current_program, created, active, block_bound,
                   uniform_vals, engineVars, managerVars, assembly, draw, frame>>

\* Render::set_is
SetIs(val) ==
    /\ ~panicked /\ mesh # NoMesh /\ mesh.is # val
    /\ mesh' = [mesh EXCEPT !.is = val]
    /\ last' = [NoOp EXCEPT !.op = "set_is"]
    /\ UNCHANGED <<shaderVars, diskVars, glVars, vaoVars, transforms, engineVars, managerVars,
                   assembly, draw, frame, panicked>>

\* the count handed to glDrawElements by Renderable::render:
\* indices.len() * size_of::<GLuint>()
renderable_count(m) == m.indices * get_type_size("UNSIGNED_INT")

\* the count handed to glDrawElementsInstanced by InstancedObject::render:
\* vertices.len()
instanced_count(m) == m.vertices

\* RenderableGroup::render: try_for_each over the renderables, each of which
\* is visible and draws with the shader
RECURSIVE group_render(_, _, _, _, _, _, _)
group_render(k, prog, c, g, opt, m, t) ==
    IF k = 0
    THEN [res |-> "Ok", cache |-> c, g |-> g, uploads |-> 0, outcome |-> "drawn"]
    ELSE CHOOSE out \in
           {IF r.res # "Ok"
            THEN r
            ELSE CHOOSE sum \in
                   {[rest EXCEPT !.uploads = @ + r.uploads] :
                      rest \in {group_render(k - 1, prog, r.cache, r.g, opt, m, t)}} : TRUE
              : r \in {render(prog, c, g, opt, m, t)}} : TRUE

\* Render::render of the object of the scene, by its kind: Renderable and
\* RenderableGroup return at once when their is flag is false,
\* InstancedObject when it has no transforms
mesh_render(o, n, prog, c, g, opt, m, t) ==
    IF o.kind = "InstancedObject"
    THEN CHOOSE out \in
           {[res |-> r.res, cache |-> r.cache, g |-> r.g, uploads |-> r.uploads,
             outcome |-> IF r.calls = 0 THEN "hidden"
                         ELSE IF r.res = "Ok" THEN "drawn" ELSE "failed",
             touched |-> r.calls > 0,
             count |-> IF r.res = "Ok" /\ r.calls > 0 THEN instanced_count(o) ELSE 0]
              : r \in {instanced_render(n, prog, c, g, opt, t)}} : TRUE
    ELSE IF ~o.is
    THEN [res |-> "Ok", cache |-> c, g |-> g, uploads |-> 0, outcome |-> "hidden",
          touched |-> FALSE, count |-> 0]
    ELSE CHOOSE out \in
           {[res |-> r.res, cache |-> r.cache, g |-> r.g, uploads |-> r.uploads,
             outcome |-> r.outcome, touched |-> TRUE,
             count |-> IF r.outcome = "drawn" THEN renderable_count(o) ELSE 0]
              : r \in {IF o.kind = "Renderable" THEN render(prog, c, g, opt, m, t)
                       ELSE group_render(o.children, prog, c, g, opt, m, t)}} : TRUE

MeshRender(m, t) ==
    /\ ~panicked /\ mesh # NoMesh
    /\ \E r \in {mesh_render(mesh, transforms, program, cache, GL, optionals, m, t)} :
          /\ panicked' = (r.res = "Panic")
          /\ cache' = r.cache
          /\ SetGL(r.g)
          /\ last' = [NoOp EXCEPT !.op = "mesh_render", !.res = r.res, !.uploads = r.uploads,
                         !.outcome = r.outcome, !.touched = r.touched, !.count = r.count]
    /\ UNCHANGED <<path, debug_sources, program, optionals, diskVars, vaoVars, transforms,
                   engineVars, managerVars, assembly, sceneVars>>

\* the transforms of the InstancedObject replaced
MeshSetData(n) == mesh # NoMesh /\ mesh.kind = "InstancedObject" /\ SetData(n)

\* a scene of one object: a shader is compiled, the object built on it, shown,
\* hidden, given instance data and rendered
NextMesh ==
    \/ \E v \in VertTexts : FromSource(v, FragGood, <<>>)
    \/ \E kind \in {"Renderable", "RenderableGroup", "InstancedObject"}, m \in MeshInputs,
          n \in (0..MaxTransforms) \cup GroupSizes, fails \in FailPoints :
          MeshNew(kind, m, n, fails)
    \/ \E val \in BOOLEAN : SetIs(val)
    \/ \E n \in 0..MaxTransforms : MeshSetData(n)
    \/ \E m \in ModelValues, t \in ClockValues : MeshRender(m, t)

SpecMesh == Init /\ [][NextMesh]_vars

----------------------------------------------------------------------------
(* Immediate-mode 2D drawing: Draw *)

\* the Object2d values a caller draws (a colour and a transform each)
Objects == {1, 2}

\* Draw::add_object through Draw::rectangle, Draw::line, Draw::fill ("rectangle")
\* and Draw::circle ("circle")
DrawAdd(shape, o) ==
    /\ ~panicked /\ program # 0
    /\ Len(draw.rectangles) + Len(draw.circles) < MaxShapes
    /\ draw' = IF shape = "rectangle"
               THEN [draw EXCEPT !.rectangles = Append(@, o)]
               ELSE [draw EXCEPT !.circles = Append(@, o)]
    /\ last' = [NoOp EXCEPT !.op = "draw_add", !.name = shape]
    /\ UNCHANGED <<shaderVars, diskVars, glVars, vaoVars, transforms, engineVars, managerVars,
                   assembly, mesh, frame, panicked>>

\* Draw::clear
DrawClear ==
    /\ ~panicked /\ program # 0
    /\ draw' = [draw EXCEPT !.rectangles = <<>>, !.circles = <<>>]
    /\ last' = [NoOp EXCEPT !.op = "draw_clear"]
    /\ UNCHANGED <<shaderVars, diskVars, glVars, vaoVars, transforms, engineVars, managerVars,
                   assembly, mesh, frame, panicked>>

DrawUpdateAlways ==
    /\ ~panicked /\ program # 0
    /\ draw' = [draw EXCEPT !.rectangle_mesh = draw.rectangles, !.circle_mesh = draw.circles]
    /\ last' = [NoOp EXCEPT !.op = "draw_update", !.prior = last.op]
    /\ UNCHANGED <<shaderVars, diskVars, glVars, vaoVars, transforms, engineVars, managerVars,
                   assembly, mesh, frame, panicked>>

\* Draw::update: set_data on the rectangle mesh if the rectangle list is not
\* empty, and on the circle mesh if the circle list is not empty
DrawUpdate ==
    /\ ~panicked /\ program # 0
    /\ draw' = [draw EXCEPT
                  !.rectangle_mesh = IF draw.rectangles # <<>> THEN draw.rectangles ELSE @,
                  !.circle_mesh = IF draw.circles # <<>> THEN draw.circles ELSE @]
    /\ last' = [NoOp EXCEPT !.op = "draw_update", !.prior = last.op]
    /\ UNCHANGED <<shaderVars, diskVars, glVars, vaoVars, transforms, engineVars, managerVars,
                   assembly, mesh, frame, panicked>>

\* Data::render over the two renderables Draw::new registered, the circle mesh
\* and then the rectangle mesh; an Err of the first ends the frame
DrawFrame(t) ==
    /\ ~panicked /\ program # 0
    /\ \E c \in {instanced_render(Len(draw.circle_mesh), program, cache, GL, optionals, t)} :
       \E r \in {IF c.res = "Ok"
                 THEN instanced_render(Len(draw.rectangle_mesh), program, c.cache, c.g, optionals, t)
                 ELSE [c EXCEPT !.uploads = 0, !.calls = 0, !.trace = <<>>]} :
          /\ panicked' = (r.res = "Panic")
          /\ cache' = r.cache
          /\ SetGL(r.g)
          /\ last' = [NoOp EXCEPT !.op = "draw_frame", !.res = r.res,
                         !.uploads = c.uploads + r.uploads, !.calls = c.calls + r.calls,
                         !.trace = c.trace \o r.trace]
    /\ UNCHANGED <<path, debug_sources, program, optionals, diskVars, vaoVars, transforms,
                   engineVars, managerVars, assembly, sceneVars>>

\* a program that draws shapes, clears and redraws between frames
NextDraw ==
    \/ \E v \in {VertGood, VertTime} : FromSource(v, FragGood, <<>>)
    \/ \E shape \in {"rectangle", "circle"}, o \in Objects : DrawAdd(shape, o)
    \/ DrawClear
    \/ DrawUpdate
    \/ \E t \in ClockValues : DrawFrame(t)

SpecDraw == Init /\ [][NextDraw]_vars

----------------------------------------------------------------------------
(* The render loop: Engine::update *)

\* one second of glfw time, in ticks of half a second
TicksPerSecond == 2

\* the time that passes between the starts of two frames, in ticks
FrameSteps == {1, 2}

SweepDueAtLeast(now, tick) == now - tick >= TicksPerSecond

\* current_frame_time - last_tick > 1.0
SweepDue(now, tick) == now - tick > TicksPerSecond

engine_update_sweep_first(now, r, w) ==
    LET due == SweepDue(now, last_tick)
    IN  [res |-> IF due /\ w.res = "Panic" THEN "Panic"
                 ELSE IF r.res = "Ok" THEN "Ok" ELSE "Panic",
         events |-> IF due THEN <<"sweep", "render">> ELSE <<"render">>,
         drawn_with |-> IF due THEN w.program ELSE program,
         program |-> IF due THEN w.program ELSE program,
         debug_sources |-> IF due THEN w.debug_sources ELSE debug_sources,
         cache |-> r.cache, g |-> IF due THEN w.g ELSE r.g,
         last_tick |-> IF due THEN now ELSE last_tick,
         compiles |-> IF due THEN w.compiles ELSE 0,
         outcome |-> IF due THEN w.outcome ELSE r.outcome]

\* Engine::update with Data::render and Data::update, given the result r of
\* drawing the scene and the result w of a reload sweep run after it: the draw
\* result is .expect(..)ed, and the sweep runs only if more than a second has
\* passed since last_tick
engine_update(now, r, w) ==
    LET drawn == [res |-> "Ok", events |-> <<"render">>, drawn_with |-> program,
                  program |-> program, debug_sources |-> debug_sources,
                  cache |-> r.cache, g |-> r.g, last_tick |-> last_tick,
                  compiles |-> 0, outcome |-> r.outcome]
    IN  IF r.res # "Ok"
        THEN [drawn EXCEPT !.res = "Panic"]
        ELSE IF ~SweepDue(now, last_tick)
        THEN drawn
        ELSE [drawn EXCEPT !.res = w.res, !.events = <<"render", "sweep">>,
                           !.program = w.program, !.debug_sources = w.debug_sources,
                           !.g = w.g, !.last_tick = now, !.compiles = w.compiles,
                           !.outcome = w.outcome]

\* one frame of the render loop, dt ticks after the start of the last one, of
\* a scene with one visible renderable that uses the shader
EngineUpdate(dt, m, t) ==
    /\ ~panicked /\ program # 0 /\ frame_index < MaxFrames
    /\ \E alloc \in (IF WillCompile THEN AllocOutcomes ELSE {AllHandlesLive}) :
       \E r \in {render(program, cache, GL, optionals, m, t)} :
       \E order \in ReplayOrders(r.cache, r.g, alloc) :
       \E w \in {try_runtime_recompile(r.cache, r.g, order, alloc)} :
       \E f \in {engine_update(current_frame_time + dt, r, w)} :
          /\ f.compiles > 0 => created < MaxPrograms
          /\ frame_index' = frame_index + 1
          /\ current_frame_time' = current_frame_time + dt
          /\ last_tick' = f.last_tick
          /\ frame_events' = f.events
          /\ sweep_times' = IF \E i \in 1..Len(f.events) : f.events[i] = "sweep"
                            THEN Append(sweep_times, current_frame_time + dt)
                            ELSE sweep_times
          /\ program' = f.program
          /\ debug_sources' = f.debug_sources
          /\ cache' = f.cache
          /\ SetGL(f.g)
          /\ panicked' = (f.res = "Panic")
          /\ last' = [NoOp EXCEPT !.op = "frame", !.res = f.res, !.compiles = f.compiles,
                         !.outcome = f.outcome, !.old_program = f.drawn_with]
    /\ UNCHANGED <<path, optionals, diskVars, vaoVars, transforms, managerVars, assembly, sceneVars>>

\* a scene on a path-backed shader: load it, run frames, edit its sources
NextEngine ==
    \/ LoadFromPath
    \/ \E dt \in FrameSteps, m \in ModelValues, t \in ClockValues : EngineUpdate(dt, m, t)
    \/ \E text \in VertTexts : WriteFile("vert", text)

SpecEngine == Init /\ [][NextEngine]_vars

----------------------------------------------------------------------------
(* Materials: NarrowingMaterial::into_shader, the template assembler *)

\* f32 values other than 0.0, 1.0 and 2.0 (floats are compared, never added)
Half == 5
SpecularExponent == 256

\* MaybeColorTexture and MaybeTexture inside an Option
Absent == [kind |-> "Absent", v |-> <<>>]
Texture == [kind |-> "Texture", v |-> <<>>]
RGBA(v) == [kind |-> "RGBA", v |-> v]
RGB(v) == [kind |-> "RGB", v |-> v]
Value(x) == [kind |-> "Value", v |-> <<x>>]

\* the NarrowingMaterials handed to into_shader (the fields it reads)
Materials ==
    [diffuse : {Absent, Texture, RGBA(<<1, 0, 0, Half>>), RGB(<<1, 0, 0>>)},
     specular : {Absent, Texture, Value(2)},
     emissive : {Absent, Texture}]

\* the three matches at the head of into_shader fill ret.textures,
\* ret.vector_values and ret.values
textures_of(mat) == {n \in {"diffuse", "specular", "emissive"} : mat[n].kind = "Texture"}

vector_values_of(mat) ==
    [n \in {x \in {"diffuse", "emissive"} : mat[x].kind # "Texture"} |->
        CASE mat[n].kind = "Absent" ->
                 IF n = "diffuse" THEN <<Half, Half, Half>> ELSE <<0, 0, 0, 0>>
          [] mat[n].kind = "RGBA" -> mat[n].v
          [] mat[n].kind = "RGB" -> <<mat[n].v[1], mat[n].v[2], mat[n].v[3], 1>>]

\* with ret.values.insert("specular_exponent", 256.0)
values_of(mat) ==
    [n \in {x \in {"specular"} : mat[x].kind # "Texture"} \cup {"specular_exponent"} |->
        IF n = "specular_exponent" THEN SpecularExponent
        ELSE IF mat[n].kind = "Absent" THEN 1 ELSE mat[n].v[1]]

\* the template markers
T_LOCATIONS == "//T: LOCATIONS"
T_PASSTHROUGHS == "//T: PASSTHROUGHS"
T_OUT == "//T: OUT"
T_IN == "//T: IN"
T_UNIFORMS == "//T: UNIFORMS"
T_STD140 == "//T: STD140"
T_TEXTURES == "//T: TEXTURES"
T_LOGIC == "//T: LOGIC"

\* the templates handed to into_shader
VertTemplate == <<T_LOCATIONS, T_OUT, T_UNIFORMS, T_STD140, "main", T_PASSTHROUGHS>>
FragTemplate == <<T_IN, T_OUT, T_STD140, T_TEXTURES, T_UNIFORMS, "main", T_LOGIC>>
FragNoUniforms == <<T_IN, T_OUT, T_STD140, T_TEXTURES, "main", T_LOGIC>>
FragOnlyUniforms == <<T_UNIFORMS, "main">>
FragTemplates == {FragTemplate, FragNoUniforms, FragOnlyUniforms}

\* str::replace at token granularity: every occurrence of the marker
RECURSIVE Replace(_, _, _)
Replace(text, marker, with) ==
    IF text = <<>>
    THEN <<>>
    ELSE (IF Head(text) = marker THEN with ELSE <<Head(text)>>)
             \o Replace(Tail(text), marker, with)

\* the loop over ["diffuse", "emissive"]: a texture-backed property adds a
\* sample to logic, any other a declaration to uniforms
color_logic(tex, i) ==
    IF i \in tex THEN <<"vec4 ", i, " = texture(", i, ", fs_in.TexCoord);\n">> ELSE <<>>

color_uniform_always(tex, i) == <<"uniform vec4 ", i, ";\n">>

color_uniform(tex, i) ==
    IF i \in tex THEN <<>> ELSE <<"uniform vec4 ", i, ";\n">>

\* for i in ret.values.keys(): "uniform float {i};\n", in the order keys
RECURSIVE float_uniforms(_, _)
float_uniforms(keys, i) ==
    IF i > Len(keys) THEN <<>>
    ELSE <<"uniform float ", keys[i], ";\n">> \o float_uniforms(keys, i + 1)

\* for i in 0..textures.len(): "layout (binding={i}) uniform sampler2D " +
\* textures.keys().nth(i) + ";\n", with the keys in the order keys
RECURSIVE sampler_uniforms(_, _)
sampler_uniforms(keys, i) ==
    IF i > Len(keys) THEN <<>>
    ELSE <<"layout (binding=", ToString(i - 1), ") uniform sampler2D ", keys[i], ";\n">>
             \o sampler_uniforms(keys, i + 1)

std140s ==
    <<"layout (std140) uniform ", "Matrices", " {vec3 cameraPos;\nmat4 view;\nmat4 projection;\n};\n",
      "layout (std140, binding=1) uniform World {vec4 ambient;};">>

\* the substitution part of into_shader: the assembled vertex and fragment
\* sources, given the orders in which ret.values and ret.textures iterate
assemble(mat, vert_source, frag_source, value_keys, texture_keys) ==
    LET tex == textures_of(mat)
        locations == <<"layout (location = 0) in vec3 aPos;\n",
                       "layout (location = 1) in vec3 aNormal;\n">>
                         \o (IF tex # {} THEN <<"layout (location = 2) in vec2 aTexCoord;">>
                                         ELSE <<>>)
        passthroughs == IF tex # {} THEN <<"vs_out.TexCoord = aTexCoord;">> ELSE <<>>
        outs == <<"vec3 Normal;\nvec3 FragPos;\nfloat Time;">>
                    \o (IF tex # {} THEN <<"vec2 TexCoord;">> ELSE <<>>)
        v1 == Replace(vert_source, T_LOCATIONS, locations)
        v2 == Replace(v1, T_PASSTHROUGHS, passthroughs)
        v3 == Replace(v2, T_OUT, <<"out VS_OUT {\n">> \o outs \o <<"} vs_out;">>)
        v4 == Replace(v3, T_UNIFORMS, <<"uniform mat4 ", "model", ";">>)
        v5 == Replace(v4, T_STD140, std140s)
        f1 == Replace(frag_source, T_IN, <<"in VS_OUT {\n">> \o outs \o <<"} fs_in;">>)
        f2 == Replace(f1, T_OUT, <<"out vec4 FragColor;">>)
        f3 == Replace(f2, T_STD140, std140s)
        logic == color_logic(tex, "diffuse") \o color_logic(tex, "emissive")
        uniforms == color_uniform(tex, "diffuse") \o color_uniform(tex, "emissive")
                        \o float_uniforms(value_keys, 1)
        f4 == Replace(f3, T_TEXTURES, sampler_uniforms(texture_keys, 1))
        f5 == Replace(f4, T_LOGIC, logic)
        f6 == Replace(f5, T_UNIFORMS, uniforms)
    IN  [vert |-> v5, frag |-> f6]

\* let vector = vec![ov[0], ov[1], ov[2], 1.0]
pushed_vector(ov) == <<ov[1], ov[2], ov[3], 1>>

\* for (i, v) in ret.vector_values.clone() { ret.set(vector, i)?; }
RECURSIVE set_vectors(_, _, _, _, _, _)
set_vectors(prog, c, g, vv, order, i) ==
    IF i > Len(order)
    THEN [res |-> "Ok", cache |-> c, g |-> g]
    ELSE LET r == set(prog, c, g, VecFloatV(pushed_vector(vv[order[i]])), order[i])
         IN  IF r.res = "Err"
             THEN [res |-> "Err", cache |-> r.cache, g |-> r.g]
             ELSE set_vectors(prog, r.cache, r.g, vv, order, i + 1)

\* for (i, v) in ret.values.clone() { ret.set(v, i).expect("Failed to set values"); }
RECURSIVE set_values(_, _, _, _, _, _)
set_values(prog, c, g, vals, order, i) ==
    IF i > Len(order)
    THEN [res |-> "Ok", cache |-> c, g |-> g]
    ELSE LET r == set(prog, c, g, FloatV(vals[order[i]]), order[i])
         IN  IF r.res = "Err"
             THEN [res |-> "Panic", cache |-> r.cache, g |-> r.g]
             ELSE set_values(prog, r.cache, r.g, vals, order, i + 1)

\* the iteration orders into_shader depends on: ret.values.keys(),
\* ret.textures.keys(), ret.vector_values.clone() and ret.values.clone()
IterationOrders(mat) ==
    [value_keys : Orders(DOMAIN values_of(mat)),
     texture_keys : Orders(textures_of(mat)),
     vectors : Orders(DOMAIN vector_values_of(mat)),
     values : Orders(DOMAIN values_of(mat))]

\* NarrowingMaterial::into_shader: assemble, compile, activate, push the
\* constants through set, deactivate, probe the optional uniforms
into_shader(mat, vert_source, frag_source, g, o, alloc) ==
    LET a == assemble(mat, vert_source, frag_source, o.value_keys, o.texture_keys)
        c == compile(g, a.vert, a.frag, <<>>, alloc)
        none == [res |-> c.res, a |-> a, program |-> 0, cache |-> NoVals, optionals |-> 0,
                 g |-> c.g, cause |-> c.cause, active |-> c.active]
    IN  IF c.res # "Ok"
        THEN none
        ELSE LET g1 == use_(c.handle, Swap(c.g, c))
                 sv == set_vectors(c.handle, NoVals, g1, vector_values_of(mat), o.vectors, 1)
                 ss == set_values(c.handle, sv.cache, sv.g, values_of(mat), o.values, 1)
             IN  IF sv.res = "Err"
                 THEN [none EXCEPT !.res = "Err", !.g = sv.g]
                 ELSE IF ss.res = "Panic"
                 THEN [none EXCEPT !.res = "Panic", !.g = ss.g]
                 ELSE [none EXCEPT !.program = c.handle, !.cache = ss.cache,
                                   !.optionals = IF "time" \in c.active THEN 1 ELSE 0,
                                   !.g = [ss.g EXCEPT !.current = 0]]

\* into_shader called on a material and a template pair; the model follows
\* the Shader built last, and a material is assembled against one template
\* pair, possibly more than once
IntoShader(mat, vert_source, frag_source, alloc) ==
    /\ ~panicked /\ created < MaxPrograms /\ Len(assembly) < MaxPrograms
    /\ assembly # <<>> =>
          (assembly[1].mat = mat /\ assembly[1].vert_source = vert_source
             /\ assembly[1].frag_source = frag_source)
    /\ \E o \in IterationOrders(mat) :
       \E r \in {into_shader(mat, vert_source, frag_source, GL, o, alloc)} :
          /\ assembly' = Append(assembly,
                 [mat |-> mat, vert_source |-> vert_source, frag_source |-> frag_source,
                  vert |-> r.a.vert, frag |-> r.a.frag])
          /\ panicked' = (r.res = "Panic")
          /\ last' = [NoOp EXCEPT !.op = "into_shader", !.res = r.res, !.compiles = 1,
                         !.cause = r.cause]
          /\ program' = r.program
          /\ cache' = r.cache
          /\ optionals' = r.optionals
          /\ path' = FALSE
          /\ debug_sources' = <<>>
          /\ SetGL(IF r.res = "Ok" THEN r.g ELSE [r.g EXCEPT !.active = r.active])
    /\ UNCHANGED <<diskVars, vaoVars, transforms, engineVars, managerVars, sceneVars>>

\* handles as glCreateShader / glCreateProgram hand them to into_shader
MaterialAllocOutcomes == {AllHandlesLive, [null |-> "program", flagged |-> TRUE]}

\* materials turned into shaders, and the shaders updated
NextMaterial ==
    \/ \E mat \in Materials, f \in FragTemplates, alloc \in MaterialAllocOutcomes :
          IntoShader(mat, VertTemplate, f, alloc)
    \/ \E t \in ClockValues : Update(t)

SpecMaterial == Init /\ [][NextMaterial]_vars

----------------------------------------------------------------------------
(* The registry: ShaderManager::register and ShaderManager::update *)

MaxShaders == 3

\* what the sweep observes of a registered Shader: whether its RefCell is
\* borrowed, and its source files ("none": the shader has no path, "present",
\* or "missing": load_file panics on a file that cannot be opened)
FileStates == {"none", "present", "missing"}
Registered(files) == [borrowed |-> FALSE, files |-> files]

\* Shader::try_runtime_recompile of one registered shader, as far as the sweep
\* depends on it: it returns, or it panics in load_file
recompile_returns(sh) == sh.files # "missing"

\* the loop of ShaderManager::update from shader i on:
\* shader_ptr.try_borrow_mut()?.try_runtime_recompile()
RECURSIVE sweep_from(_, _, _)
sweep_from(reg, i, attempts) ==
    IF i > Len(reg)
    THEN [res |-> "Ok", attempts |-> attempts]
    ELSE IF reg[i].borrowed
    THEN [res |-> "Err", attempts |-> attempts]
    ELSE IF ~recompile_returns(reg[i])
    THEN [res |-> "Panic", attempts |-> [attempts EXCEPT ![i] = 1]]
    ELSE sweep_from(reg, i + 1, [attempts EXCEPT ![i] = 1])

\* ShaderManager::update: the number of try_runtime_recompile calls each
\* registered shader received, and what the call came to
ShaderManager_update(reg) == sweep_from(reg, 1, [i \in 1..Len(reg) |-> 0])

\* ShaderManager::register
Register(files) ==
    /\ ~panicked /\ Len(shaders) < MaxShaders
    /\ shaders' = Append(shaders, Registered(files))
    /\ last' = [NoOp EXCEPT !.op = "register"]
    /\ UNCHANGED <<shaderVars, glVars, diskVars, vaoVars, transforms, engineVars, sweep,
                   assembly, sceneVars, panicked>>

\* a holder of the ShaderPtr takes shader.borrow_mut() and keeps the guard
Borrow(i) ==
    /\ ~panicked /\ i \in 1..Len(shaders) /\ ~shaders[i].borrowed
    /\ shaders' = [shaders EXCEPT ![i].borrowed = TRUE]
    /\ last' = [NoOp EXCEPT !.op = "borrow"]
    /\ UNCHANGED <<shaderVars, glVars, diskVars, vaoVars, transforms, engineVars, sweep,
                   assembly, sceneVars, panicked>>

\* the holder drops the guard
Release(i) ==
    /\ ~panicked /\ i \in 1..Len(shaders) /\ shaders[i].borrowed
    /\ shaders' = [shaders EXCEPT ![i].borrowed = FALSE]
    /\ last' = [NoOp EXCEPT !.op = "release"]
    /\ UNCHANGED <<shaderVars, glVars, diskVars, vaoVars, transforms, engineVars, sweep,
                   assembly, sceneVars, panicked>>

\* Data::update: self.shader_manager.update()
ManagerUpdate ==
    LET r == ShaderManager_update(shaders)
    IN  /\ ~panicked
        /\ sweep' = r
        /\ panicked' = (r.res = "Panic")
        /\ last' = [NoOp EXCEPT !.op = "manager_update", !.res = r.res]
        /\ UNCHANGED <<shaderVars, glVars, diskVars, vaoVars, transforms, engineVars, shaders,
                       assembly, sceneVars>>

\* a registry that grows while holders borrow and release its shaders
NextManager ==
    \/ \E f \in FileStates : Register(f)
    \/ \E i \in 1..MaxShaders : Borrow(i)
    \/ \E i \in 1..MaxShaders : Release(i)
    \/ ManagerUpdate

SpecManager == Init /\ [][NextManager]_vars

----------------------------------------------------------------------------
(* A frame: Data::render over renderables that share a shader *)

\* the registered shaders the scene draws with: every renderable holds a clone
\* of the first ShaderPtr, and Data::wireframe_shader is the second
SceneShader == 1
WireframeShader == 2

\* Data::renderables: a Renderable, a RenderableGroup of two renderables and
\* another Renderable, each by the shader its Renderable::new was given
Scene == <<<<SceneShader>>, <<SceneShader, SceneShader>>, <<SceneShader>>>>

\* the calls of Renderable::render a frame makes, in order: Data::render
\* iterates the renderables, RenderableGroup::render its own
RECURSIVE Leaves(_)
Leaves(scene) == IF scene = <<>> THEN <<>> ELSE Head(scene) \o Leaves(Tail(scene))

\* shader_override.as_ref().unwrap_or(&self.shader), where the override is
\* wireframe.then(|| self.wireframe_shader.clone()), cloned by a group for
\* each of its renderables
ShaderOf(own, wireframe) == IF wireframe THEN WireframeShader ELSE own

\* Engine::update calls Data::render
FrameBegin(wireframe) ==
    /\ ~panicked /\ frame.pc = "idle" /\ Len(shaders) >= WireframeShader
    /\ frame' = [pc |-> "render", k |-> 1, wireframe |-> wireframe, guards |-> frame.guards]
    /\ last' = [NoOp EXCEPT !.op = "frame_begin"]
    /\ UNCHANGED <<shaderVars, glVars, diskVars, vaoVars, transforms, engineVars, managerVars,
                   assembly, mesh, draw, panicked>>

\* Renderable::render of the next renderable reaches borrow_mut(), which
\* panics if the RefCell is borrowed
RenderBorrow ==
    /\ ~panicked /\ frame.pc = "render" /\ frame.k <= Len(Leaves(Scene))
    /\ \E i \in {ShaderOf(Leaves(Scene)[frame.k], frame.wireframe)} :
          IF shaders[i].borrowed
          THEN /\ panicked' = TRUE
               /\ last' = [NoOp EXCEPT !.op = "render_borrow", !.res = "Panic",
                              !.cause = "borrowed"]
               /\ UNCHANGED <<shaders, frame>>
          ELSE /\ shaders' = [shaders EXCEPT ![i].borrowed = TRUE]
               /\ frame' = [frame EXCEPT !.pc = "drawing", !.guards = @ \cup {i}]
               /\ last' = [NoOp EXCEPT !.op = "render_borrow"]
               /\ UNCHANGED panicked
    /\ UNCHANGED <<shaderVars, glVars, diskVars, vaoVars, transforms, engineVars, sweep,
                   assembly, mesh, draw>>

RenderReturnKeepsGuard(res) ==
    /\ ~panicked /\ frame.pc = "drawing"
    /\ frame' = [frame EXCEPT !.pc = "render", !.k = @ + 1]
    /\ panicked' = (res # "Ok")
    /\ last' = [NoOp EXCEPT !.op = "render_return", !.res = res]
    /\ UNCHANGED <<shaderVars, glVars, diskVars, vaoVars, transforms, engineVars, managerVars,
                   assembly, mesh, draw>>

\* Renderable::render returns Ok, returns the Err of find_gl_error()? or
\* panics in an expect; the RefMut is dropped in each case, and Engine::update
\* expects Data::render to have returned Ok
RenderReturn(res) ==
    /\ ~panicked /\ frame.pc = "drawing"
    /\ shaders' = [i \in 1..Len(shaders) |->
                     IF i \in frame.guards THEN [shaders[i] EXCEPT !.borrowed = FALSE]
                     ELSE shaders[i]]
    /\ frame' = [frame EXCEPT !.pc = "render", !.k = @ + 1, !.guards = {}]
    /\ panicked' = (res # "Ok")
    /\ last' = [NoOp EXCEPT !.op = "render_return", !.res = res]
    /\ UNCHANGED <<shaderVars, glVars, diskVars, vaoVars, transforms, engineVars, sweep,
                   assembly, mesh, draw>>

\* Data::render returns Ok after the last renderable
FrameEnd ==
    /\ ~panicked /\ frame.pc = "render" /\ frame.k > Len(Leaves(Scene))
    /\ frame' = [frame EXCEPT !.pc = "idle"]
    /\ last' = [NoOp EXCEPT !.op = "frame_end"]
    /\ UNCHANGED <<shaderVars, glVars, diskVars, vaoVars, transforms, engineVars, managerVars,
                   assembly, mesh, draw, panicked>>

\* frames and sweeps of a registry of shaders, with code outside the frame
\* that takes and drops a guard between them
NextFrame ==
    \/ Register("present")
    \/ \E i \in 1..MaxShaders : frame.pc = "idle" /\ Borrow(i)
    \/ \E i \in 1..MaxShaders : frame.pc = "idle" /\ Release(i)
    \/ frame.pc = "idle" /\ ManagerUpdate
    \/ \E wireframe \in BOOLEAN : FrameBegin(wireframe)
    \/ RenderBorrow
    \/ \E res \in {"Ok", "Err", "Panic"} : RenderReturn(res)
    \/ FrameEnd

SpecFrame == Init /\ [][NextFrame]_vars

----------------------------------------------------------------------------
(* Properties *)

\* a value that == finds equal to itself
SelfEqual(value) == PartialEq(value, value)

\* C1 (as stated): of two consecutive set calls with the same value and name,
\* the first of which succeeds, the second returns Ok, issues no GPU call,
\* leaves the cache unchanged, and the two together upload at most once.
C1_Original ==
    [][ (last'.op = "set" /\ last'.repeat)
           => /\ last'.res = "Ok"
              /\ ~last'.touched
              /\ last'.uploads = 0
              /\ last.uploads + last'.uploads <= 1
              /\ cache' = cache ]_vars

\* C1 (amended): the same, for every value that compares equal to itself
\* under == (a value with no NaN component).
C1_Idempotent ==
    [][ (last'.op = "set" /\ last'.repeat /\ SelfEqual(last'.value))
           => /\ last'.res = "Ok"
              /\ ~last'.touched
              /\ last'.uploads = 0
              /\ last.uploads + last'.uploads <= 1
              /\ cache' = cache ]_vars

C1_Witness ==
    /\ last.op = "set" /\ last.repeat /\ last.res = "Ok"
    /\ last.uploads = 0 /\ ~last.touched
    /\ program # 0 /\ cache[last.name] = last.value

\* C2 (as stated): a set of v under a name whose cache entry differs from v
\* always performs a GPU upload and leaves the cache mapping the name to v.
C2_Original ==
    [][ (last'.op = "set" /\ last'.prior = "different")
           => /\ last'.uploads = 1
              /\ cache'[last'.name] = last'.value ]_vars

\* C2 (amended): a set of v under a name whose cache entry differs from v
\* issues the upload whenever the name is an active uniform of the program and
\* v, if a vector, has 1 to 4 components; when it returns Ok it has uploaded
\* exactly once and the cache maps the name to v; when it returns Err the
\* cache keeps the old entry.
C2_Invalidation ==
    [][ (last'.op = "set" /\ last'.prior = "different")
           => /\ (last'.name \in active /\ VecLenOK(last'.value)) => last'.uploads = 1
              /\ last'.res = "Ok" => (last'.uploads = 1 /\ cache'[last'.name] = last'.value)
              /\ last'.res = "Err" => cache' = cache ]_vars

C2_Witness ==
    /\ last.op = "set" /\ last.prior = "different" /\ last.res = "Ok"
    /\ last.uploads = 1 /\ cache[last.name] = last.value

\* C3: a set that fails (the name is not an active uniform, a vector has a
\* length outside 1..4, or the error flag is raised after the upload) returns
\* Err without panicking and leaves the cache as it was; the cache changes
\* only in a set that returns Ok, and then only at the name that was set.
C3_FailureKeepsCache ==
    [][ last'.op = "set"
           => /\ ~panicked'
              /\ last'.res \in {"Ok", "Err"}
              /\ last'.res = "Err" => cache' = cache
              /\ cache' # cache =>
                    (last'.res = "Ok" /\ cache' = [cache EXCEPT ![last'.name] = last'.value])
              /\ (program # 0 /\ last'.prior # "equal"
                    /\ (last'.name \notin active \/ ~VecLenOK(last'.value)))
                    => (last'.res = "Err" /\ last'.uploads = 0)
              /\ (last'.uploads = 1 /\ ~TypeAccepts(last'.name, last'.value))
                    => last'.res = "Err" ]_vars

C3_Witness ==
    /\ last.op = "set" /\ last.res = "Err" /\ last.uploads = 1
    /\ program # 0 /\ Cached(cache) # {} /\ ~panicked

\* C4 (as stated): after a reload whose compile succeeded the shader holds a
\* new program handle and that program carries every cached uniform value.
C4_Original ==
    (last.op = "reload" /\ last.outcome = "compiled")
        => /\ program # last.old_program
           /\ \A n \in Cached(cache) : n \in active /\ uniform_vals[n] = cache[n]

\* C5 (as stated): a reload that meets source text failing to compile leaves
\* the program handle unchanged and lets no failure escape the call.
C5_Original ==
    (last.op = "reload" /\ last.outcome = "compile_failed")
        => (last.res = "Ok" /\ ~panicked /\ program = last.old_program)

\* C6 (as stated): with a compiled, path-backed shader, neither a reload
\* sweep nor a render panics or returns an error, whatever the edits were.
C6_Original ==
    (path /\ program # 0 /\ last.op \in {"reload", "render"})
        => (last.res = "Ok" /\ ~panicked)

\* C7 (as stated): a reload whose compile fails keeps the program and keeps
\* the baseline recorded before the attempt.
C7_Original ==
    [][ (last'.op = "reload" /\ last'.outcome = "compile_failed" /\ last'.res = "Ok")
           => (program' = program /\ debug_sources' = debug_sources) ]_vars

\* C7 (amended): a reload whose compile returns Err keeps the old program
\* running unmodified (handle, active uniforms, uniform values and cache) and
\* records the just-read text as the baseline, so the next sweep, reading the
\* same broken source, does not attempt the recompile again.
C7_FailedReloadRecordsRead ==
    [][ (last'.op = "reload" /\ last'.outcome = "compile_failed" /\ last'.res = "Ok")
           => /\ program' = program /\ active' = active
              /\ uniform_vals' = uniform_vals /\ cache' = cache
              /\ debug_sources # debug_sources'
              /\ debug_sources' = ReadSources
              /\ ~ShouldRecompile(ReadSources', debug_sources') ]_vars

C7_Witness ==
    /\ last.op = "reload" /\ last.outcome = "compile_failed" /\ last.res = "Ok"
    /\ program = last.old_program /\ program # 0
    /\ debug_sources = ReadSources
    /\ \E i \in 1..3 : ~CompileStatus(debug_sources[i])

\* C8: whenever a reload attempted a compile and returned, the baseline is
\* the just-read text, whether or not the compile succeeded; a reload that
\* directly follows a reload performs no compile; and a compile is attempted
\* only when the text read differs from the baseline.
C8_BaselineFollowsRead ==
    [][ last'.op = "reload"
           => /\ (last'.compiles = 1 /\ last'.res = "Ok") => debug_sources' = <<disk["vert"], disk["frag"], disk["geo"]>>
              /\ (last.op = "reload" /\ last.res = "Ok") => last'.compiles = 0
              /\ last'.compiles = 1 => debug_sources # <<disk["vert"], disk["frag"], disk["geo"]>> ]_vars

C8_Witness ==
    /\ last.op = "reload" /\ last.compiles = 1 /\ last.res = "Ok"
    /\ last.outcome = "compile_failed"
    /\ debug_sources = <<disk["vert"], disk["frag"], disk["geo"]>>
    /\ edits > 0

\* C9: a reload of a shader without a base path, or of one whose re-read
\* vertex, fragment and geometry texts all equal the baseline, compiles
\* nothing and leaves the program handle, the cache and the baseline alone.
C9_NoOpReload ==
    [][ (last'.op = "reload"
           /\ (~path \/ (Readable /\ debug_sources = <<disk["vert"], disk["frag"], disk["geo"]>>)))
           => /\ last'.compiles = 0 /\ created' = created
              /\ program' = program /\ cache' = cache
              /\ debug_sources' = debug_sources
              /\ uniform_vals' = uniform_vals
              /\ ~panicked' ]_vars

C9_Witness ==
    /\ last.op = "reload" /\ last.outcome = "same" /\ last.compiles = 0
    /\ path /\ program # 0 /\ Cached(cache) # {}
    /\ debug_sources = <<disk["vert"], disk["frag"], disk["geo"]>>

\* C10 (as stated): a reload that reads changed sources whose vertex text
\* contains the marker the template assembler strips compiles nothing and
\* leaves the program handle and the cache unchanged.
C10_Original ==
    [][ (last'.op = "reload" /\ path /\ Readable
           /\ debug_sources # <<disk["vert"], disk["frag"], disk["geo"]>>
           /\ Contains(disk["vert"], ProcessedMarker))
           => (last'.compiles = 0 /\ program' = program /\ cache' = cache) ]_vars

\* C11: on a Shader whose program handle is absent, use_ issues no GPU call,
\* set and direct_set return Err without an upload and without changing the
\* cache, update returns Ok, and none of them panics or touches the GL state.
C11_AbsentProgramIsInert ==
    [][ (program = 0 /\ last'.op \in {"use", "set", "direct_set", "update"})
           => /\ ~panicked'
              /\ ~last'.touched /\ last'.uploads = 0
              /\ cache' = cache /\ program' = 0
              /\ glVars' = glVars
              /\ last'.op \in {"set", "direct_set"} => last'.res = "Err"
              /\ last'.op \in {"use", "update"} => last'.res = "Ok" ]_vars

C11_Witness ==
    /\ program = 0 /\ last.op = "direct_set" /\ last.res = "Err"
    /\ ~last.touched /\ current_program = 0 /\ ~panicked

\* C12 (as stated): when a stage fails to compile or the program fails to
\* link, compile returns Err without panicking, and a constructor that met
\* the failure has built no Shader.
C12_Original ==
    (last.compiles = 1 /\ last.cause \in {"stage_failed", "link_failed"})
        => /\ last.res = "Err" /\ ~panicked
           /\ last.op \in {"from_source", "load_from_path"} => program = 0

\* C13 (as stated): a null stage or program handle met during compile is
\* reported as Err and never becomes a panic, whatever the error flag holds.
C13_Original ==
    (last.compiles = 1 /\ last.cause = "null_handle")
        => (last.res = "Err" /\ ~panicked)

\* C14 (as stated): every program object that glCreateProgram has handed out
\* and that is still allocated is the current handle of the live Shader.
C14_Original ==
    \A h \in 1..created : h = program

\* C15: configure on a vertex array one of whose vertex buffers has never
\* had buffer_data called returns Err without panicking and without issuing
\* any vertex-buffer binding or attribute-format call; it issues calls or
\* returns Ok only when every vertex buffer has been uploaded.
C15_ConfigureNeedsUploads ==
    [][ last'.op = "configure"
           => /\ (\E i \in 1..Len(vbos) : ~vbos[i])
                    => /\ last'.res = "Err" /\ ~panicked'
                       /\ last'.calls = 0
                       /\ vertex_buffers' = <<>> /\ attribs' = <<>>
              /\ (last'.calls > 0 \/ last'.res = "Ok")
                    => \A i \in 1..Len(vbos) : vbos[i] ]_vars

C15_Witness ==
    /\ last.op = "configure" /\ last.res = "Err" /\ last.calls = 0
    /\ Len(vbos) = 2 /\ vbos[1] /\ ~vbos[2]
    /\ structure # <<>> /\ attribs = <<>> /\ ~panicked

\* C16 (as stated): configure returns Ok or Err for every attribute list and
\* every set of vertex buffers, and never panics.
C16_Original ==
    last.op = "configure" => (last.res \in {"Ok", "Err"} /\ ~panicked)

\* componentCount * sizeOfType summed over the attributes of st at the
\* positions in S
RECURSIVE SumBytes(_, _)
SumBytes(st, S) ==
    IF S = {}
    THEN 0
    ELSE LET k == CHOOSE x \in S : TRUE
         IN  st[k].amount * st[k].type_size + SumBytes(st, S \ {k})

PosNormTex == <<VAA_new("FLOAT", 3, 0), VAA_new("FLOAT", 3, 0), VAA_new("FLOAT", 2, 0)>>

\* C17: the stride configure binds for buffer b is the sum of
\* componentCount * sizeOfType over the attributes assigned to b, and the
\* offset given to slot k is that sum over the attributes before k that share
\* k's buffer; position 3xf32, normal 3xf32, texcoord 2xf32 on buffer 0 get
\* stride 32 and offsets 0, 12, 24.
C17_Layout ==
    /\ Len(vertex_buffers) <= Len(vbos) /\ Len(attribs) <= Len(structure)
    /\ \A b \in 1..Len(vertex_buffers) :
          vertex_buffers[b] =
              SumBytes(structure, {k \in 1..Len(structure) : structure[k].vbo_index = b - 1})
    /\ \A k \in 1..Len(attribs) :
          /\ attribs[k].binding = structure[k].vbo_index
          /\ attribs[k].amount = structure[k].amount
          /\ attribs[k].offset =
                 SumBytes(structure, {j \in 1..(k - 1) :
                                         structure[j].vbo_index = structure[k].vbo_index})
    /\ (last.op = "configure" /\ last.res = "Ok")
          => (Len(vertex_buffers) = Len(vbos) /\ Len(attribs) = Len(structure))
    /\ (last.op = "configure" /\ last.res = "Ok" /\ structure = PosNormTex)
          => /\ vertex_buffers[1] = 32
             /\ attribs[1].offset = 0 /\ attribs[2].offset = 12 /\ attribs[3].offset = 24

C17_Witness ==
    /\ last.op = "configure" /\ last.res = "Ok" /\ structure = PosNormTex
    /\ vertex_buffers = <<32>>
    /\ attribs[1].offset = 0 /\ attribs[2].offset = 12 /\ attribs[3].offset = 24

\* C18: InstancedObject::render on an object with zero transforms returns Ok
\* having issued no GPU call: no buffer upload, no shader activation, no
\* uniform upload and no draw, so the GL state and the cache are untouched.
C18_InstancedSkip ==
    [][ (last'.op = "instanced_render" /\ transforms = 0)
           => /\ last'.res = "Ok" /\ ~panicked'
              /\ last'.calls = 0 /\ last'.uploads = 0
              /\ glVars' = glVars /\ cache' = cache ]_vars

C18_Witness ==
    /\ last.op = "instanced_render" /\ transforms = 0 /\ last.calls = 0
    /\ last.res = "Ok" /\ program # 0 /\ current_program # program /\ gl_error

\* C19: the frame-start times of any two consecutive reload sweeps lie more
\* than one second apart, the first sweep comes more than a second after time
\* 0, and a frame sweeps at most once.
C19_SweepRate ==
    /\ \A i \in 1..Len(sweep_times) :
          sweep_times[i] - (IF i = 1 THEN 0 ELSE sweep_times[i - 1]) > TicksPerSecond
    /\ Cardinality({i \in 1..Len(frame_events) : frame_events[i] = "sweep"}) <= 1
    /\ Len(sweep_times) <= frame_index
    /\ last_tick = (IF sweep_times = <<>> THEN 0 ELSE sweep_times[Len(sweep_times)])

C19_Witness ==
    /\ Len(sweep_times) >= 2
    /\ sweep_times[2] - sweep_times[1] = TicksPerSecond + 1
    /\ frame_events = <<"render", "sweep">> /\ ~panicked

\* C20 (as stated): in a frame whose reload sweep fires, the sweep comes
\* before the frame's uniform uploads and draw calls.
C20_Original ==
    (last.op = "frame" /\ \E i \in 1..Len(frame_events) : frame_events[i] = "sweep")
        => frame_events = <<"sweep", "render">>

\* C20 (amended): in a frame whose reload sweep fires, the sweep comes after
\* the frame's uniform uploads and draw calls: the draws use the program the
\* shader held when the frame began, and the program is replaced only by a
\* sweep that follows them, so a reloaded program first draws in a later frame.
C20_SweepFollowsDraws ==
    [][ last'.op = "frame"
           => /\ frame_events' \in {<<"render">>, <<"render", "sweep">>}
              /\ last'.old_program = program
              /\ program' # program => frame_events' = <<"render", "sweep">>
              /\ last'.compiles > 0 => frame_events' = <<"render", "sweep">> ]_vars

C20_Witness ==
    /\ last.op = "frame" /\ frame_events = <<"render", "sweep">>
    /\ last.outcome = "compiled" /\ last.res = "Ok"
    /\ program # last.old_program /\ last.old_program # 0

\* C27 (as stated): after a constructor has compiled the shader, the time
\* flag is set exactly when the program has an active uniform named time; an
\* update with the flag clear issues no GPU call.
C27_Original ==
    /\ (last.op \in {"from_source", "load_from_path", "into_shader", "with_path"}
           /\ last.res = "Ok")
          => (optionals % 2 = 1 <=> "time" \in active)
    /\ (last.op = "update" /\ optionals % 2 = 0) => (last.uploads = 0 /\ ~last.touched)

\* C28: every upload that set or direct_set issues on a shader with a live
\* program happens with that program current: a call that finds another
\* program, or none, current activates the shader's program first.
C28_UploadOnActiveProgram ==
    [][ (last'.op \in {"set", "direct_set"} /\ program # 0)
           => /\ last'.uploads = 1 => current_program' = program
              /\ last'.touched => current_program' = program
              /\ last'.activated <=> (last'.touched /\ current_program # program) ]_vars

C28_Witness ==
    /\ last.op = "set" /\ last.uploads = 1 /\ last.res = "Ok" /\ last.activated
    /\ program # 0 /\ current_program = program

\* C29: direct_set never inserts, overwrites or removes a cache entry, and
\* it uploads whatever the cache holds: on a live program, for an active
\* uniform and a vector of 1 to 4 components, it uploads exactly once even
\* when the cache already maps the name to an equal value.
C29_DirectSetBypassesCache ==
    [][ last'.op = "direct_set"
           => /\ cache' = cache
              /\ (program # 0 /\ last'.name \in active /\ VecLenOK(last'.value))
                    => last'.uploads = 1 ]_vars

C29_Witness ==
    /\ last.op = "direct_set" /\ last.uploads = 1 /\ last.res = "Ok"
    /\ cache[last.name] = last.value /\ uniform_vals[last.name] = last.value

\* C30: InstancedObject::render with at least one transform uploads vertex
\* buffer 1, then vertex buffer 2, then activates the shader, runs its update
\* and issues one instanced draw whose instance count is the number of
\* transforms; vertex buffer 0 is never uploaded; a render that stops early
\* has made a prefix of these calls and no draw.
C30_InstancedOrder ==
    [][ (last'.op = "instanced_render" /\ transforms > 0)
           => LET full == <<Call("buffer_data", 1), Call("buffer_data", 2), Call("use_", 0),
                            Call("update", 0), Call("DrawElementsInstanced", transforms)>>
                  tr == last'.trace
              IN  /\ Len(tr) \in 1..5 /\ tr = SubSeq(full, 1, Len(tr))
                  /\ last'.res = "Ok" <=> tr = full
                  /\ \A i \in 1..Len(tr) : tr[i] # Call("buffer_data", 0)
                  /\ Cardinality({i \in 1..Len(tr) : tr[i].call = "DrawElementsInstanced"})
                        = (IF last'.res = "Ok" THEN 1 ELSE 0) ]_vars

C30_Witness ==
    /\ last.op = "instanced_render" /\ last.res = "Ok" /\ transforms > 0
    /\ Len(last.trace) = 5 /\ last.trace[5] = Call("DrawElementsInstanced", transforms)
    /\ last.uploads = 1 /\ program # 0

\* C22: the holders of one ShaderPtr share one program handle and one uniform
\* cache: a render through any holder that returns Ok leaves the cache entry
\* and the GPU value of "model" at that holder's matrix (after A.render and
\* then B.render, B's), uploads no model matrix when another holder with an
\* equal matrix rendered last, keeps the entries set through other holders,
\* and draws with the handle the last reload installed.
C22_SharedShader ==
    [][ (last'.op = "render_by" /\ last'.res = "Ok")
           => /\ cache'["model"] = Matrix4V(IF last'.holder = "B" THEN 2 ELSE 1)
              /\ uniform_vals'["model"] = cache'["model"]
              /\ (last.op = "render_by" /\ last.holder = "A" /\ last'.holder = "B")
                    => (cache["model"] = Matrix4V(1) /\ cache'["model"] = Matrix4V(2))
              /\ (cache["model"] = cache'["model"] /\ cache["time"] = cache'["time"])
                    => last'.uploads = 0
              /\ cache'["diffuse"] = cache["diffuse"]
              /\ program' = program
              /\ (last.op = "reload" /\ last.outcome = "compiled")
                    => (program # last.old_program
                        /\ \A n \in Cached(cache) : uniform_vals[n] = cache[n]) ]_vars

C22_Witness ==
    /\ last.op = "render_by" /\ last.holder = "B" /\ last.res = "Ok"
    /\ cache["model"] = Matrix4V(2) /\ uniform_vals["model"] = Matrix4V(2)
    /\ cache["diffuse"] # NoValue /\ created = 2 /\ program = 2

\* C21 (as stated): a call of ShaderManager::update gives every registered
\* shader exactly one try_runtime_recompile attempt, whatever the state of the
\* other registered shaders (read here in its weakest form: of a call that
\* returns, and of the shaders that are not themselves borrowed).
C21_Original ==
    (last.op = "manager_update" /\ ~panicked)
        => (Len(sweep.attempts) = Len(shaders)
            /\ \A i \in 1..Len(shaders) : ~shaders[i].borrowed => sweep.attempts[i] = 1)

----------------------------------------------------------------------------
(* Properties of the template assembler *)

\* C23: assembling the same material against the same template pair twice
\* gives identical vertex and fragment sources, uniform declarations and
\* sampler binding indices included
C23_Original ==
    \A i, j \in 1..Len(assembly) :
        (assembly[i].mat = assembly[j].mat
           /\ assembly[i].vert_source = assembly[j].vert_source
           /\ assembly[i].frag_source = assembly[j].frag_source)
            => (assembly[i].vert = assembly[j].vert /\ assembly[i].frag = assembly[j].frag)

\* the fragment source holds the token a directly followed by the name n
Follows(text, a, n) == \E k \in 1..(Len(text) - 1) : text[k] = a /\ text[k + 1] = n
Samples(text, n) == Follows(text, " = texture(", n)
DeclaresVec4(text, n) == Follows(text, "uniform vec4 ", n)
DeclaresFloat(text, n) == Follows(text, "uniform float ", n)
DeclaresSampler(text, n) == Follows(text, ") uniform sampler2D ", n)

\* C24 as stated: every property is texture-backed or constant-backed, and
\* the fragment source holds a sample for the first and a uniform vec4
\* declaration for the second, never both
C24_Original ==
    \A k \in 1..Len(assembly) :
        \A n \in {"diffuse", "specular", "emissive"} :
            LET a == assembly[k]
                textured == n \in textures_of(a.mat)
                constant == n \in DOMAIN vector_values_of(a.mat) \cup DOMAIN values_of(a.mat)
            IN  /\ textured # constant
                /\ Contains(a.frag_source, T_LOGIC) /\ Contains(a.frag_source, T_UNIFORMS)
                      => /\ Samples(a.frag, n) <=> textured
                         /\ DeclaresVec4(a.frag, n) <=> constant

\* C24 amended: every property is in exactly one of the texture map and the
\* constant maps; where the template has the markers, diffuse and emissive
\* get a sample when texture-backed and a uniform vec4 declaration when
\* constant-backed, never both; specular gets a uniform float declaration
\* when constant-backed and neither a sample nor a uniform vec4 declaration;
\* a texture-backed property gets a sampler declaration
C24_TextureOrConstant ==
    \A k \in 1..Len(assembly) :
        LET a == assembly[k]
            tex == textures_of(a.mat)
            logic == Contains(a.frag_source, T_LOGIC)
            uniforms == Contains(a.frag_source, T_UNIFORMS)
        IN  /\ \A n \in {"diffuse", "specular", "emissive"} :
                  (n \in tex) # (n \in DOMAIN vector_values_of(a.mat) \cup DOMAIN values_of(a.mat))
            /\ \A n \in {"diffuse", "emissive"} :
                  /\ Samples(a.frag, n) <=> (n \in tex /\ logic)
                  /\ DeclaresVec4(a.frag, n) <=> (n \notin tex /\ uniforms)
                  /\ ~(Samples(a.frag, n) /\ DeclaresVec4(a.frag, n))
                  /\ ~DeclaresFloat(a.frag, n)
            /\ \A n \in {"diffuse", "specular", "emissive"} :
                  DeclaresSampler(a.frag, n) <=> (n \in tex /\ Contains(a.frag_source, T_TEXTURES))
            /\ ~Samples(a.frag, "specular")
            /\ ~DeclaresVec4(a.frag, "specular")
            /\ DeclaresFloat(a.frag, "specular") <=> ("specular" \notin tex /\ uniforms)

\* a texture-backed diffuse with a constant-backed specular, assembled
\* against the template that has every marker
C24_Witness ==
    \E k \in 1..Len(assembly) :
        /\ assembly[k].mat.diffuse.kind = "Texture"
        /\ assembly[k].mat.specular.kind = "Value"
        /\ assembly[k].frag_source = FragTemplate
        /\ Samples(assembly[k].frag, "diffuse")
        /\ DeclaresFloat(assembly[k].frag, "specular")

\* C25: after a successful into_shader the cache maps every constant
\* property to exactly the descriptor's value, and no program is active
C25_Original ==
    (last.op = "into_shader" /\ last.res = "Ok")
        => LET mat == assembly[Len(assembly)].mat
           IN  /\ \A n \in {"diffuse", "emissive"} :
                     /\ mat[n].kind = "RGBA" => cache[n] = VecFloatV(mat[n].v)
                     /\ mat[n].kind = "RGB"
                           => cache[n] = VecFloatV(<<mat[n].v[1], mat[n].v[2], mat[n].v[3], 1>>)
               /\ mat.specular.kind = "Value" => cache["specular"] = FloatV(mat.specular.v[1])
               /\ current_program = 0

\* C26: a constant property that is not an active uniform of the linked
\* program never makes into_shader panic
C26_Original ==
    (last.op = "into_shader" /\ last.cause = "ok"
       /\ \E n \in DOMAIN vector_values_of(assembly[Len(assembly)].mat)
                      \cup DOMAIN values_of(assembly[Len(assembly)].mat) : n \notin active)
        => ~panicked

----------------------------------------------------------------------------
(* Properties of the shader's handle and cache over its lifetime *)

\* C32: whatever sequence of set, update, render and reload sweeps ran, the
\* shader's current program holds, under every name in the cache, exactly the
\* cached value
C32_CacheCoherent ==
    (~panicked /\ program # 0)
        => \A n \in Names : cache[n] # NoValue => uniform_vals[n] = cache[n]

\* a reload sweep gave the shader a new program and replayed a matrix that a
\* render had cached over another one
C32_Witness ==
    /\ ~panicked /\ last.op = "reload" /\ last.compiles = 1 /\ last.res = "Ok"
    /\ program # last.old_program /\ last.uploads > 0
    /\ cache["model"] = Matrix4V(2) /\ uniform_vals["model"] = Matrix4V(2)

KindChange == last'.op = "set" /\ cache[last'.name] # NoValue
                 /\ cache[last'.name].kind # last'.value.kind

\* C34 as stated: a set of a value whose kind differs from the kind cached
\* under the name performs the upload and, on success, replaces the entry
C34_Original ==
    [][ KindChange
           => /\ last'.uploads = 1
              /\ last'.res = "Ok" => cache'[last'.name] = last'.value ]_vars

\* C34 amended: a set of a value whose kind differs from the kind cached
\* under the name is a cache miss: it goes to direct_set, which performs the
\* upload unless the value is a vector of a length outside 1..4; on success
\* the entry is replaced by the new kind and value, on failure it is kept
C34_KindChangeIsMiss ==
    [][ KindChange
           => /\ last'.touched
              /\ last'.uploads = (IF VecLenOK(last'.value) THEN 1 ELSE 0)
              /\ ~VecLenOK(last'.value) => last'.res = "Err"
              /\ last'.res = "Ok" => cache' = [cache EXCEPT ![last'.name] = last'.value]
              /\ last'.res = "Err" => cache' = cache ]_vars

\* a vector of one float replaced the equal float cached under "time"
C34_Witness ==
    /\ last.op = "set" /\ last.res = "Ok" /\ last.uploads = 1 /\ last.prior = "different"
    /\ last.name = "time" /\ last.value = VecFloatV(<<1>>) /\ cache["time"] = VecFloatV(<<1>>)

----------------------------------------------------------------------------
(* Properties of buffers, meshes and draw calls *)

\* C40: a buffer's buffered flag is false when the buffer is new, true after
\* its first buffer_data whether or not the upload reported a GPU error, and
\* never false again; configure proceeds on a buffer whose only upload failed
C40_BufferedIsSticky ==
    [][/\ Len(vbos') >= Len(vbos)
       /\ \A i \in 1..Len(vbos) : vbos[i] => vbos'[i]
       /\ \A i \in (Len(vbos) + 1)..Len(vbos') : ~vbos'[i]
       /\ last'.op = "buffer_data"
             => \E i \in 1..Len(vbos) : vbos' = [vbos EXCEPT ![i] = TRUE]
       /\ (last.op = "buffer_data" /\ last.res = "Err" /\ AllBuffered(vbos)
             /\ last'.op = "configure")
             => (last'.res # "Err" /\ last'.calls > 0)]_vars

\* the first upload of a buffer reported a GPU error and set the flag
C40_Witness ==
    /\ last.op = "buffer_data" /\ last.res = "Err"
    /\ Len(vbos) = 1 /\ vbos[1] /\ structure = <<>>

\* C31: an object that its constructor returned was generated first, had
\* every vertex buffer and the index buffer uploaded next and was configured
\* last, successfully; a constructor whose GPU step failed returned no object,
\* so that every draw is of a configured vertex array
C31_ConfiguredBeforeDraw ==
    /\ (last.op = "mesh_new" /\ last.res = "Panic") => mesh = NoMesh
    /\ mesh # NoMesh =>
          /\ mesh.configured /\ mesh.ebo /\ AllBuffered(vbos)
          /\ mesh.trace[1] = Call("generate", 0)
          /\ mesh.trace[Len(mesh.trace)] = Call("configure", 0)
          /\ \A k \in 2..(Len(mesh.trace) - 1) :
                mesh.trace[k].call \in {"buffer_data", "ebo_buffer_data"}
          /\ \A i \in 1..Len(vbos) :
                \E k \in 2..(Len(mesh.trace) - 1) : mesh.trace[k] = Call("buffer_data", i - 1)
          /\ \E k \in 2..(Len(mesh.trace) - 1) : mesh.trace[k] = Call("ebo_buffer_data", 0)
    /\ (last.op = "mesh_render" /\ last.outcome = "drawn") => (mesh # NoMesh /\ mesh.configured)

C31_Witness ==
    /\ last.op = "mesh_render" /\ last.outcome = "drawn" /\ mesh # NoMesh
    /\ mesh.kind = "Renderable" /\ mesh.normals /\ Len(mesh.trace) = 4 /\ Len(attribs) = 2

\* C35: a render of an object whose is flag is false issues no GPU call and
\* returns Ok, whatever the kind of the object
C35_Original ==
    (last.op = "mesh_render" /\ mesh # NoMesh /\ ~mesh.is) => (~last.touched /\ last.res = "Ok")

\* C37: the element count handed to the indexed draw call is the number of
\* indices that were uploaded
C37_Original ==
    (last.op = "mesh_render" /\ last.outcome = "drawn" /\ mesh # NoMesh) => last.count = mesh.indices

\* C38: the stride configured for vertex buffer 0 of a built mesh is the
\* number of bytes build_vertex_data writes per vertex
C38_Original ==
    mesh # NoMesh => vertex_buffers[1] = mesh.written

\* the instanced draw calls of a frame, in order
DrawsOf(trace) == SelectSeq(trace, LAMBDA c : c.call = "DrawElementsInstanced")

InstancesOf(data) ==
    IF data = <<>> THEN <<>> ELSE <<Call("DrawElementsInstanced", Len(data))>>

\* C39: Draw::update hands a shape list to its InstancedObject only if the
\* list is not empty and otherwise leaves the object's data as they were,
\* Draw::clear empties the lists only, and a frame draws what the objects
\* hold: shapes cleared since the last update stay on screen
C39_ClearedShapesStay ==
    [][/\ last'.op = "draw_update" =>
            /\ draw'.rectangle_mesh = (IF draw.rectangles # <<>> THEN draw.rectangles
                                       ELSE draw.rectangle_mesh)
            /\ draw'.circle_mesh = (IF draw.circles # <<>> THEN draw.circles
                                    ELSE draw.circle_mesh)
       /\ last'.op = "draw_clear" =>
            /\ draw'.rectangles = <<>> /\ draw'.circles = <<>>
            /\ draw'.rectangle_mesh = draw.rectangle_mesh
            /\ draw'.circle_mesh = draw.circle_mesh
       /\ (last'.op = "draw_frame" /\ last'.res = "Ok") =>
            /\ draw' = draw
            /\ DrawsOf(last'.trace) =
                  InstancesOf(draw.circle_mesh) \o InstancesOf(draw.rectangle_mesh)]_vars

C39_Witness ==
    /\ last.op = "draw_frame" /\ last.res = "Ok"
    /\ draw.rectangles = <<>> /\ draw.circles = <<>>
    /\ draw.rectangle_mesh = <<2>> /\ draw.circle_mesh = <<1>>
    /\ DrawsOf(last.trace) = <<Call("DrawElementsInstanced", 1), Call("DrawElementsInstanced", 1)>>

\* the shaders whose RefCell is borrowed by code outside the frame
HeldOutside == {i \in 1..Len(shaders) : shaders[i].borrowed /\ i \notin frame.guards}

\* C36: the frame holds at most one guard of a shader at a time and none
\* between two renderables, so that a borrow of Data::render or of
\* ShaderManager::update fails only on a guard that code outside the frame
\* holds, however many renderables share the shader
C36_OneBorrowAtATime ==
    [][/\ Cardinality(frame'.guards) <= 1
       /\ frame'.pc # "drawing" => frame'.guards = {}
       /\ \A i \in frame'.guards : shaders'[i].borrowed
       /\ (last'.op = "render_borrow" /\ last'.res = "Panic") => HeldOutside # {}
       /\ (last'.op = "manager_update" /\ last'.res = "Err") => HeldOutside # {}]_vars

C36_Witness ==
    /\ last.op = "frame_end" /\ ~panicked /\ ~frame.wireframe
    /\ frame.k = Len(Leaves(Scene)) + 1 /\ Len(Leaves(Scene)) > 2
    /\ frame.guards = {} /\ ~shaders[SceneShader].borrowed

====
